---- MODULE Spec2Model ----
(***************************************************************************)
(* A model of the Knight interpreter (knight-lang/go): the value model and *)
(* its coercions, the parser's construction of call nodes and variable     *)
(* cells, and the evaluator, as a small-step machine whose frames are the  *)
(* activations of the built-in function handlers.                          *)
(*                                                                         *)
(* Go's recursion (a handler calling Execute on an argument) is unfolded   *)
(* into an explicit stack: a handler runs up to its next Execute call,     *)
(* the callee runs, and the handler resumes with the callee's result.      *)
(***************************************************************************)
EXTENDS Integers, Sequences, FiniteSets, TLC

(***************************************************************************)
(* Bounds of the model.                                                    *)
(***************************************************************************)
\* Width in bits of Go's int in the model (64 in the build).
IntWidth == 8
\* Largest loop count used by the generated WHILE programs.
MaxLoop == 3

\* The number of operations on Lists made one after the other on Go's slices.
MaxOps == 2
\* The number of calls of Play and PlayWithEnvironment in a row.
MaxPlays == 3
\* The length of the longest source text that ParseNextValue is run on.
MaxSource == 3
\* The number of nested calls of Execute that Go's stack has room for (the
\* stack of the build is limited to 1 GB).
MaxDepth == 20

MinInt == -(2 ^ (IntWidth - 1))
MaxInt == (2 ^ (IntWidth - 1)) - 1

\* Two's complement wrap-around of Go's int arithmetic.
Wrap(x) == ((x - MinInt) % (2 ^ IntWidth)) + MinInt

\* Go's integer division and remainder truncate toward zero.
Abs(x) == IF x < 0 THEN -x ELSE x
Quo(a, b) == IF (a < 0) = (b < 0) THEN Abs(a) \div Abs(b) ELSE -(Abs(a) \div Abs(b))
Rem(a, b) == a - b * Quo(a, b)

(***************************************************************************)
(* Values.  Every value is a record of the same shape:                     *)
(*   k  the dynamic type                                                   *)
(*   n  Integer: the number; Boolean: 1/0; List: 0 for a nil slice, 1 for  *)
(*      a non-nil one; Variable: the address of the cell                   *)
(*   b  String: its bytes                                                  *)
(*   e  List: its elements; Ast: its arguments                             *)
(*   f  Ast: the key of its function in KnownFunctions                     *)
(***************************************************************************)
Nil == [k |-> "nil", n |-> 0, b |-> <<>>, e |-> <<>>, f |-> ""]
Null == [k |-> "Null", n |-> 0, b |-> <<>>, e |-> <<>>, f |-> ""]
Boolean(x) == [k |-> "Boolean", n |-> IF x THEN 1 ELSE 0, b |-> <<>>, e |-> <<>>, f |-> ""]
Integer(i) == [k |-> "Integer", n |-> i, b |-> <<>>, e |-> <<>>, f |-> ""]
String(bs) == [k |-> "String", n |-> 0, b |-> bs, e |-> <<>>, f |-> ""]
\* A non-nil slice (List{...}, make, a slice of a non-nil slice).
List(es) == [k |-> "List", n |-> 1, b |-> <<>>, e |-> es, f |-> ""]
\* The nil slice, List(nil).
NilList == [k |-> "List", n |-> 0, b |-> <<>>, e |-> <<>>, f |-> ""]
VariableRef(ptr) == [k |-> "Variable", n |-> ptr, b |-> <<>>, e |-> <<>>, f |-> ""]
Ast(fn, arguments) == [k |-> "Ast", n |-> 0, b |-> <<>>, e |-> arguments, f |-> fn]

\* Errors.  msg is the format of the message, t a type name (%T), b bytes (%q, %s)
\* and n a number (%d) interpolated into it; line is the number of the line in
\* "[line %d]" (0 where the token parser below is used, which has no lines).
NoErr == [msg |-> "", t |-> "", b |-> <<>>, n |-> 0, w |-> "", line |-> 0]
Err(m) == [msg |-> m, t |-> "", b |-> <<>>, n |-> 0, w |-> "", line |-> 0]
ErrT(m, ty) == [msg |-> m, t |-> ty, b |-> <<>>, n |-> 0, w |-> "", line |-> 0]
ErrB(m, bs) == [msg |-> m, t |-> "", b |-> bs, n |-> 0, w |-> "", line |-> 0]
ErrN(m, i) == [msg |-> m, t |-> "", b |-> <<>>, n |-> i, w |-> "", line |-> 0]
ErrBN(m, bs, i) == [msg |-> m, t |-> "", b |-> bs, n |-> i, w |-> "", line |-> 0]
\* An error of the parser: "[line %d] ..." with the line number interpolated.
ErrLine(m, lineno, bs, i) == [msg |-> m, t |-> "", b |-> bs, n |-> i, w |-> "", line |-> lineno]
\* fmt.Errorf("<prefix>: %v", err): w is the prefix put before the message.
ErrWrap(prefix, err) == [err EXCEPT !.w = prefix]

\* The result of a fallible call: (value, error).
Ok(v) == [val |-> v, err |-> NoErr]
Fail(er) == [val |-> Nil, err |-> er]
IsOk(r) == r.err = NoErr

(***************************************************************************)
(* Bytes and text.                                                         *)
(***************************************************************************)
RECURSIVE Concat(_)
Concat(seqs) == IF seqs = <<>> THEN <<>> ELSE Head(seqs) \o Concat(Tail(seqs))

RECURSIVE Repeat(_, _)
Repeat(s, count) == IF count <= 0 THEN <<>> ELSE s \o Repeat(s, count - 1)

\* s[lo:hi] of Go, 0-based and half-open.
Slice(s, lo, hi) == SubSeq(s, lo + 1, hi)

RECURSIVE FormatUint(_)
FormatUint(i) == IF i < 10 THEN <<48 + i>> ELSE FormatUint(i \div 10) \o <<48 + (i % 10)>>

\* strconv.FormatInt(i, 10)
FormatInt(i) == IF i < 0 THEN <<45>> \o FormatUint(-i) ELSE FormatUint(i)

\* unicode.IsSpace on the runes below U+0080 ('\t' '\n' '\v' '\f' '\r' ' ').
IsSpace(c) == c \in {9, 10, 11, 12, 13, 32}
isDigit(c) == 48 <= c /\ c <= 57

RECURSIVE TrimLeftSpace(_)
TrimLeftSpace(bs) ==
  IF bs # <<>> /\ IsSpace(Head(bs)) THEN TrimLeftSpace(Tail(bs)) ELSE bs

RECURSIVE TakeDigits(_)
TakeDigits(bs) ==
  IF bs # <<>> /\ isDigit(Head(bs)) THEN <<Head(bs)>> \o TakeDigits(Tail(bs)) ELSE <<>>

RECURSIVE DigitsValue(_, _)
\* The number the digits denote, or MaxInt + 1 as soon as it exceeds MaxInt + 1.
DigitsValue(ds, acc) ==
  IF ds = <<>> THEN acc
  ELSE LET next == acc * 10 + (Head(ds) - 48)
       IN IF next > MaxInt + 1 THEN MaxInt + 2 ELSE DigitsValue(Tail(ds), next)

\* The width in bytes of the UTF-8 sequence a byte starts (1 for a byte that
\* starts none: it decodes to utf8.RuneError).
RuneWidth(bs) ==
  LET c == Head(bs)
      w == IF c < 128 THEN 1
           ELSE IF 194 <= c /\ c <= 223 THEN 2
           ELSE IF 224 <= c /\ c <= 239 THEN 3
           ELSE IF 240 <= c /\ c <= 244 THEN 4
           ELSE 1
  IN IF w <= Len(bs) /\ \A i \in 2..w : 128 <= bs[i] /\ bs[i] <= 191 THEN w ELSE 1

\* The bytes Go produces when it converts the first rune of bs back to a string.
FirstRune(bs) ==
  LET w == RuneWidth(bs)
  IN IF w = 1 /\ Head(bs) >= 128 THEN <<239, 191, 189>> ELSE SubSeq(bs, 1, w)

RECURSIVE Runes(_)
\* []rune(s), each rune as the string holding it.
Runes(bs) ==
  IF bs = <<>> THEN <<>>
  ELSE <<FirstRune(bs)>> \o Runes(SubSeq(bs, RuneWidth(bs) + 1, Len(bs)))

\* string(rune(c)) for a code point below U+0800.
EncodeRune(c) == IF c < 128 THEN <<c>> ELSE <<192 + (c \div 64), 128 + (c % 64)>>

(***************************************************************************)
(* Coercions.  Each returns (value, error), the value being the Knight     *)
(* value that holds Go's bool, int, string or []Value.                     *)
(***************************************************************************)
\* Knight 2.0.1 compatibility switch of the build.
shouldSupportKnightVersion_2_0_1 == TRUE

Null_ToBool(v) == Ok(Boolean(FALSE))
Null_ToInt(v) == Ok(Integer(0))
Null_ToString(v) == Ok(String(<<>>))
Null_ToSlice(v) == Ok(NilList)

Boolean_ToBool(v) == Ok(v)
Boolean_ToInt(v) == IF v.n = 1 THEN Ok(Integer(1)) ELSE Ok(Integer(0))
\* "true" / "false"
Boolean_ToString(v) ==
  IF v.n = 1 THEN Ok(String(<<116, 114, 117, 101>>))
  ELSE Ok(String(<<102, 97, 108, 115, 101>>))
Boolean_ToSlice(v) == IF v.n = 1 THEN Ok(List(<<v>>)) ELSE Ok(NilList)

Integer_ToBool(v) == Ok(Boolean(v.n # 0))
Integer_ToInt(v) == Ok(v)
Integer_ToString(v) == Ok(String(FormatInt(v.n)))

RECURSIVE IntegerDigits(_, _)
\* The loop of Integer.ToList: prepend i % 10 while i is not 0.
IntegerDigits(i, list) ==
  IF i = 0 THEN list
  ELSE IntegerDigits(Quo(i, 10), <<Integer(Rem(i, 10))>> \o list)

\* A conversion to the digits of the magnitude, the sign dropped.
Integer_ToSlice_magnitude(v) ==
  IF v.n = 0 THEN Ok(List(<<v>>)) ELSE Ok(List(IntegerDigits(Abs(v.n), <<>>)))

Integer_ToSlice(v) ==
  IF v.n = 0 THEN Ok(List(<<v>>))
  ELSE IF v.n < 0 /\ ~shouldSupportKnightVersion_2_0_1
  THEN Fail(ErrN("attempted to convert a negative integer to list: %d", v.n))
  ELSE Ok(List(IntegerDigits(v.n, <<>>)))

String_ToBool(v) == Ok(Boolean(v.b # <<>>))

\* A conversion that takes the whole trimmed string as the number, and gives
\* 0 when anything follows the digits.
String_ToInt_whole(v) ==
  LET trimmed == TrimLeftSpace(v.b)
      signed == trimmed # <<>> /\ Head(trimmed) \in {43, 45}
      negative == signed /\ Head(trimmed) = 45
      body == IF signed THEN Tail(trimmed) ELSE trimmed
      digits == TakeDigits(body)
      magnitude == DigitsValue(digits, 0)
      parsed == IF negative THEN -magnitude ELSE magnitude
  IN IF digits = <<>> \/ digits # body \/ parsed < MinInt \/ parsed > MaxInt
     THEN Ok(Integer(0))
     ELSE Ok(Integer(parsed))

\* fmt.Sscanf(trimmed, "%d", &parsed): an optional sign and a run of digits;
\* parsed stays 0 when there is no digit or the number does not fit an int.
String_ToInt(v) ==
  LET trimmed == TrimLeftSpace(v.b)
      signed == trimmed # <<>> /\ Head(trimmed) \in {43, 45}
      negative == signed /\ Head(trimmed) = 45
      digits == TakeDigits(IF signed THEN Tail(trimmed) ELSE trimmed)
      magnitude == DigitsValue(digits, 0)
      parsed == IF negative THEN -magnitude ELSE magnitude
  IN IF digits = <<>> \/ parsed < MinInt \/ parsed > MaxInt
     THEN Ok(Integer(0))
     ELSE Ok(Integer(parsed))

String_ToString(v) == Ok(v)

RECURSIVE StringsOf(_)
StringsOf(rs) == IF rs = <<>> THEN <<>> ELSE <<String(Head(rs))>> \o StringsOf(Tail(rs))

\* make([]Value, count) filled with one String per rune: never nil.
String_ToSlice(v) == Ok(List(StringsOf(Runes(v.b))))

List_ToBool(v) == Ok(Boolean(Len(v.e) # 0))
List_ToInt(v) == Ok(Integer(Len(v.e)))
List_ToSlice(v) == Ok(v)

Variable_ToBool(v) == Fail(Err("Variable doesn't define boolean conversions"))
Variable_ToInt(v) == Fail(Err("Variable doesn't define integer conversions"))
Variable_ToString(v) == Fail(Err("Variable doesn't define string conversions"))
Variable_ToSlice(v) == Fail(Err("Variable doesn't define list conversions"))

\* A boolean conversion that an Ast would have if it were truthy.
Ast_ToBool_truthy(v) == Ok(Boolean(TRUE))

Ast_ToBool(v) == Fail(Err("Ast doesn't define boolean conversions"))
Ast_ToInt(v) == Fail(Err("Ast doesn't define int conversions"))
Ast_ToString(v) == Fail(Err("Ast doesn't define string conversions"))
Ast_ToSlice(v) == Fail(Err("Ast doesn't define list conversions"))

RECURSIVE Value_ToString(_)
RECURSIVE Join(_, _, _)
\* List.Join: the elements' strings with the separator between them; the
\* first element without a string conversion ends it with that error.
\* acc is the strings.Builder, i the 0-based index of the next element.
Join(l, separator, i) ==
  IF i >= Len(l.e) THEN Ok(String(<<>>))
  ELSE LET stringRepresentation == Value_ToString(l.e[i + 1])
           rest == Join(l, separator, i + 1)
       IN IF ~IsOk(stringRepresentation) THEN Fail(stringRepresentation.err)
          ELSE IF ~IsOk(rest) THEN Fail(rest.err)
          ELSE Ok(String((IF i # 0 THEN separator ELSE <<>>)
                         \o stringRepresentation.val.b \o rest.val.b))

List_ToString(v) == Join(v, <<10>>, 0)

\* Interface dispatch of Value.ToBool / ToInt / ToString / ToSlice.
Value_ToBool(v) ==
  CASE v.k = "Null" -> Null_ToBool(v)
    [] v.k = "Boolean" -> Boolean_ToBool(v)
    [] v.k = "Integer" -> Integer_ToBool(v)
    [] v.k = "String" -> String_ToBool(v)
    [] v.k = "List" -> List_ToBool(v)
    [] v.k = "Variable" -> Variable_ToBool(v)
    [] v.k = "Ast" -> Ast_ToBool(v)

Value_ToInt(v) ==
  CASE v.k = "Null" -> Null_ToInt(v)
    [] v.k = "Boolean" -> Boolean_ToInt(v)
    [] v.k = "Integer" -> Integer_ToInt(v)
    [] v.k = "String" -> String_ToInt(v)
    [] v.k = "List" -> List_ToInt(v)
    [] v.k = "Variable" -> Variable_ToInt(v)
    [] v.k = "Ast" -> Ast_ToInt(v)

Value_ToString(v) ==
  CASE v.k = "Null" -> Null_ToString(v)
    [] v.k = "Boolean" -> Boolean_ToString(v)
    [] v.k = "Integer" -> Integer_ToString(v)
    [] v.k = "String" -> String_ToString(v)
    [] v.k = "List" -> List_ToString(v)
    [] v.k = "Variable" -> Variable_ToString(v)
    [] v.k = "Ast" -> Ast_ToString(v)

Value_ToSlice(v) ==
  CASE v.k = "Null" -> Null_ToSlice(v)
    [] v.k = "Boolean" -> Boolean_ToSlice(v)
    [] v.k = "Integer" -> Integer_ToSlice(v)
    [] v.k = "String" -> String_ToSlice(v)
    [] v.k = "List" -> List_ToSlice(v)
    [] v.k = "Variable" -> Variable_ToSlice(v)
    [] v.k = "Ast" -> Ast_ToSlice(v)

\* The %T of a value in an error message.
TypeName(v) ==
  CASE v.k = "Variable" -> "*knight.Variable"
    [] v.k = "Ast" -> "*knight.Ast"
    [] v.k = "Null" -> "knight.Null"
    [] v.k = "Boolean" -> "knight.Boolean"
    [] v.k = "Integer" -> "knight.Integer"
    [] v.k = "String" -> "knight.String"
    [] v.k = "List" -> "knight.List"
    [] OTHER -> "<nil>"

(***************************************************************************)
(* Go library functions the handlers use.                                  *)
(***************************************************************************)
RECURSIVE DeepEqual(_, _)
\* reflect.DeepEqual on two Values: the dynamic types must be identical; a
\* nil slice and a non-nil slice are never deeply equal, not even when both
\* are empty; non-nil slices are compared by length and then by element.
DeepEqual(x, y) ==
  IF x.k # y.k THEN FALSE
  ELSE CASE x.k \in {"Null", "nil"} -> TRUE
         [] x.k \in {"Boolean", "Integer"} -> x.n = y.n
         [] x.k = "String" -> x.b = y.b
         [] x.k = "List" ->
              /\ (x.n = 0) = (y.n = 0)
              /\ Len(x.e) = Len(y.e)
              /\ \A i \in 1..Len(x.e) : DeepEqual(x.e[i], y.e[i])
         [] x.k = "Variable" -> x.n = y.n
         [] x.k = "Ast" ->
              /\ x.f = y.f
              /\ Len(x.e) = Len(y.e)
              /\ \A i \in 1..Len(x.e) : DeepEqual(x.e[i], y.e[i])

RECURSIVE SumLen(_)
SumLen(ls) == IF ls = <<>> THEN 0 ELSE Len(Head(ls).e) + SumLen(Tail(ls))

RECURSIVE AllElems(_)
AllElems(ls) == IF ls = <<>> THEN <<>> ELSE Head(ls).e \o AllElems(Tail(ls))

\* slices.Concat: Grow(nil, size) and then the appends; the result is the nil
\* slice when the total size is 0.
slices_Concat(ls) == IF SumLen(ls) = 0 THEN NilList ELSE List(AllElems(ls))

\* slices.Repeat for count >= 0: make(S, len(x)*count), then the copies; the
\* result is never nil.
slices_Repeat(x, count) == List(Repeat(x.e, count))

\* x[lo:hi] on a List: slicing the nil slice gives the nil slice.
ListSlice(x, lo, hi) == IF x.n = 0 THEN NilList ELSE List(Slice(x.e, lo, hi))

(***************************************************************************)
(* The function table.                                                     *)
(***************************************************************************)
\* The runes that start a known function (the keys of KnownFunctions,
\* the extensions EVAL and backtick included).
FunctionKeys ==
  {"T", "F", "N", "@", "P", "R", ":", "B", "C", "Q", "!", "L", "D", "O", "A", "~", ",", "[", "]", "+", "-", "*", "/", "%", "^", "<", ">", "?", "&", "|", ";", "=", "W", "I", "G", "S", "E", "BACKTICK"}

\* KnownFunctions[c]: the name (as bytes) and the arity of the function; the
\* handler (fn) of a key is the action of Next that runs it.
KnownFunctions(c) ==
    CASE c = "T" -> [name |-> <<84, 82, 85, 69>>, arity |-> 0]
      [] c = "F" -> [name |-> <<70, 65, 76, 83, 69>>, arity |-> 0]
      [] c = "N" -> [name |-> <<78, 85, 76, 76>>, arity |-> 0]
      [] c = "@" -> [name |-> <<64>>, arity |-> 0]
      [] c = "P" -> [name |-> <<80, 82, 79, 77, 80, 84>>, arity |-> 0]
      [] c = "R" -> [name |-> <<82, 65, 78, 68, 79, 77>>, arity |-> 0]
      [] c = ":" -> [name |-> <<58>>, arity |-> 1]
      [] c = "B" -> [name |-> <<66, 76, 79, 67, 75>>, arity |-> 1]
      [] c = "C" -> [name |-> <<67, 65, 76, 76>>, arity |-> 1]
      [] c = "Q" -> [name |-> <<81, 85, 73, 84>>, arity |-> 1]
      [] c = "!" -> [name |-> <<33>>, arity |-> 1]
      [] c = "L" -> [name |-> <<76, 69, 78, 71, 84, 72>>, arity |-> 1]
      [] c = "D" -> [name |-> <<68, 85, 77, 80>>, arity |-> 1]
      [] c = "O" -> [name |-> <<79, 85, 84, 80, 85, 84>>, arity |-> 1]
      [] c = "A" -> [name |-> <<65, 83, 67, 73, 73>>, arity |-> 1]
      [] c = "~" -> [name |-> <<126>>, arity |-> 1]
      [] c = "," -> [name |-> <<44>>, arity |-> 1]
      [] c = "[" -> [name |-> <<91>>, arity |-> 1]
      [] c = "]" -> [name |-> <<93>>, arity |-> 1]
      [] c = "+" -> [name |-> <<43>>, arity |-> 2]
      [] c = "-" -> [name |-> <<45>>, arity |-> 2]
      [] c = "*" -> [name |-> <<42>>, arity |-> 2]
      [] c = "/" -> [name |-> <<47>>, arity |-> 2]
      [] c = "%" -> [name |-> <<37>>, arity |-> 2]
      [] c = "^" -> [name |-> <<94>>, arity |-> 2]
      [] c = "<" -> [name |-> <<60>>, arity |-> 2]
      [] c = ">" -> [name |-> <<62>>, arity |-> 2]
      [] c = "?" -> [name |-> <<63>>, arity |-> 2]
      [] c = "&" -> [name |-> <<38>>, arity |-> 2]
      [] c = "|" -> [name |-> <<124>>, arity |-> 2]
      [] c = ";" -> [name |-> <<59>>, arity |-> 2]
      [] c = "=" -> [name |-> <<61>>, arity |-> 2]
      [] c = "W" -> [name |-> <<87, 72, 73, 76, 69>>, arity |-> 2]
      [] c = "I" -> [name |-> <<73, 70>>, arity |-> 3]
      [] c = "G" -> [name |-> <<71, 69, 84>>, arity |-> 3]
      [] c = "S" -> [name |-> <<83, 69, 84>>, arity |-> 4]
      [] c = "E" -> [name |-> <<69, 86, 65, 76>>, arity |-> 1]
      [] c = "BACKTICK" -> [name |-> <<96>>, arity |-> 1]

(***************************************************************************)
(* Dump: the bytes a value's Dump writes to stdout.                        *)
(***************************************************************************)
HexDigit(d) == IF d < 10 THEN 48 + d ELSE 87 + d

\* One byte of a string under the %q verb (strconv.Quote).
QuoteByte(c) ==
  CASE c = 34 -> <<92, 34>>
    [] c = 92 -> <<92, 92>>
    [] c = 7 -> <<92, 97>>
    [] c = 8 -> <<92, 98>>
    [] c = 12 -> <<92, 102>>
    [] c = 10 -> <<92, 110>>
    [] c = 13 -> <<92, 114>>
    [] c = 9 -> <<92, 116>>
    [] c = 11 -> <<92, 118>>
    [] c < 32 \/ c = 127 -> <<92, 120, HexDigit(c \div 16), HexDigit(c % 16)>>
    [] OTHER -> <<c>>

RECURSIVE QuoteBytes(_)
QuoteBytes(bs) == IF bs = <<>> THEN <<>> ELSE QuoteByte(Head(bs)) \o QuoteBytes(Tail(bs))

RECURSIVE DumpBytes(_, _)
RECURSIVE DumpElements(_, _, _, _)
\* The elements of a list (first = "" and separated by ", ") or the
\* arguments of an Ast (each preceded by ", ").
DumpElements(es, i, leading, names) ==
  IF i > Len(es) THEN <<>>
  ELSE (IF i # 1 \/ leading THEN <<44, 32>> ELSE <<>>)
       \o DumpBytes(es[i], names) \o DumpElements(es, i + 1, leading, names)

\* names[ptr] is the name of the variable cell at ptr.
DumpBytes(v, names) ==
  CASE v.k = "Null" -> <<110, 117, 108, 108>>
    [] v.k = "Boolean" -> Boolean_ToString(v).val.b
    [] v.k = "Integer" -> FormatInt(v.n)
    [] v.k = "String" -> <<34>> \o QuoteBytes(v.b) \o <<34>>
    [] v.k = "List" -> <<91>> \o DumpElements(v.e, 1, FALSE, names) \o <<93>>
    [] v.k = "Variable" ->
         <<86, 97, 114, 105, 97, 98, 108, 101, 40>>
         \o (IF v.n \in DOMAIN names THEN names[v.n] ELSE <<>>) \o <<41>>
    [] v.k = "Ast" ->
         \* "Ast(%c" with a string operand prints %!c(string=NAME)
         <<65, 115, 116, 40, 37, 33, 99, 40, 115, 116, 114, 105, 110, 103, 61>>
         \o KnownFunctions(v.f).name \o <<41>>
         \o DumpElements(v.e, 1, TRUE, names) \o <<41>>

(***************************************************************************)
(* Variables: the cells and the map that interns them by name.             *)
(* cells[ptr] is the Variable struct at address ptr, value Nil meaning     *)
(* unset; variablesMap is the sequence of (name, ptr) entries of the map.  *)
(***************************************************************************)
HasVariable(variablesMap, name) ==
  \E i \in 1..Len(variablesMap) : variablesMap[i].name = name

LookupVariable(variablesMap, name) ==
  variablesMap[CHOOSE i \in 1..Len(variablesMap) : variablesMap[i].name = name].ptr

\* NewVariable without the lookup: a new cell for every occurrence of the name.
NewVariable_fresh(name, variablesMap, cells) ==
  [ptr |-> Len(cells) + 1,
   variablesMap |-> Append(variablesMap, [name |-> name, ptr |-> Len(cells) + 1]),
   cells |-> Append(cells, [name |-> name, value |-> Nil])]

\* NewVariable: the cell of that name, created unset if there is none yet.
NewVariable(name, variablesMap, cells) ==
  IF HasVariable(variablesMap, name)
  THEN [ptr |-> LookupVariable(variablesMap, name),
        variablesMap |-> variablesMap, cells |-> cells]
  ELSE [ptr |-> Len(cells) + 1,
        variablesMap |-> Append(variablesMap, [name |-> name, ptr |-> Len(cells) + 1]),
        cells |-> Append(cells, [name |-> name, value |-> Nil])]

\* Variable.Execute with an unset cell read as Null.
Variable_Execute_null(v, cells) ==
  IF cells[v.n].value = Nil THEN Ok(Null) ELSE Ok(cells[v.n].value)

\* Variable.Execute: the last-assigned value, or an error for an unset cell.
Variable_Execute(v, cells) ==
  IF cells[v.n].value = Nil
  THEN Fail(ErrB("undefined variable %q encountered", cells[v.n].name))
  ELSE Ok(cells[v.n].value)

\* Variable.Assign on a copy of the cell (a value receiver): nothing is stored.
Variable_Assign_copy(ptr, value, cells) ==
  [panicked |-> value = Nil, cells |-> cells]

\* Variable.Assign on a value shared by all the variables.
Variable_Assign_shared(ptr, value, cells) ==
  IF value = Nil
  THEN [panicked |-> TRUE, cells |-> cells]
  ELSE [panicked |-> FALSE, cells |-> [c \in 1..Len(cells) |-> [cells[c] EXCEPT !.value = value]]]

\* Variable.Assign: panics on nil (panicked is TRUE), else overwrites the value.
Variable_Assign(ptr, value, cells) ==
  IF value = Nil
  THEN [panicked |-> TRUE, cells |-> cells]
  ELSE [panicked |-> FALSE, cells |-> [cells EXCEPT ![ptr].value = value]]

\* The names of the cells, by address.
CellNames(cells) == [i \in 1..Len(cells) |-> cells[i].name]

(***************************************************************************)
(* The parser.  The source is modelled after lexing: a sequence of tokens, *)
(* each the start of one production of ParseNextValue (whitespace and      *)
(* comments are already skipped, so every line number is 0).               *)
(*   t = "int": the digits' value n;  t = "var": the name b;               *)
(*   t = "str": the contents b;  t = "fn": the first rune c of the word.   *)
(***************************************************************************)
TInt(i) == [t |-> "int", c |-> "", n |-> i, b |-> <<>>]
TVar(name) == [t |-> "var", c |-> "", n |-> 0, b |-> name]
TStr(bs) == [t |-> "str", c |-> "", n |-> 0, b |-> bs]
TFn(c) == [t |-> "fn", c |-> c, n |-> 0, b |-> <<>>]

EndOfInput == Err("source was empty")

\* panicked: Peek or Advance was called at the end of the source.
NewParser(source, variablesMap, cells) ==
  [source |-> source, index |-> 0, variablesMap |-> variablesMap, cells |-> cells,
   panicked |-> FALSE]

IsAtEnd(p) == Len(p.source) <= p.index
\* What Peek yields when it panics.
PastEnd == -1
Peek(p) == IF IsAtEnd(p) THEN PastEnd ELSE p.source[p.index + 1]
Advance(p) ==
  IF IsAtEnd(p) THEN [p EXCEPT !.panicked = TRUE] ELSE [p EXCEPT !.index = p.index + 1]

\* NewAst: Nil stands for the arity-mismatch panic.
NewAst(function, arguments) ==
  IF KnownFunctions(function).arity # Len(arguments) THEN Nil ELSE Ast(function, arguments)

\* The result of a parse: (value, error), the parser after it, and whether
\* it panicked instead of returning.
Parsed(val, err, p) == [val |-> val, err |-> err, p |-> p, panicked |-> FALSE]

\* No call of Play or PlayWithEnvironment is modelled (see playing below).
NoPlay == [calls |-> 0, api |-> "", env |-> [variablesMap |-> <<>>, cells |-> <<>>],
           log |-> <<>>]

\* No slice is modelled (see slices below).
NoSlices == [arrays |-> <<>>, lists |-> <<>>, ops |-> 0, last |-> ""]

\* No call of ParseNextValue on runes is modelled (see parsing below).
NoParse == [p |-> NewParser(<<>>, <<>>, <<>>), frames |-> <<>>, mode |-> "idle",
            val |-> Nil, err |-> NoErr]

RECURSIVE ParseNextValue(_)
RECURSIVE ParseArguments(_, _, _, _)
\* The loop over the arguments of a function: i is the 0-based index of the
\* next argument, arguments the ones parsed so far.
ParseArguments(p, function, i, arguments) ==
  IF i >= KnownFunctions(function).arity
  THEN LET ast == NewAst(function, arguments)
       IN [Parsed(ast, NoErr, p) EXCEPT !.panicked = (ast = Nil)]
  ELSE LET next == ParseNextValue(p)
       IN IF next.panicked THEN next
          ELSE IF next.err # NoErr
          THEN Parsed(Nil,
                      IF next.err = EndOfInput
                      THEN ErrBN("[line %d] missing argument %d for function %q",
                                 KnownFunctions(function).name, i + 1)
                      ELSE next.err,
                      next.p)
          ELSE ParseArguments(next.p, function, i + 1, Append(arguments, next.val))

ParseNextValue(p) ==
  IF IsAtEnd(p) THEN Parsed(Nil, EndOfInput, p)
  ELSE LET c == Peek(p)
       IN CASE c.t = "int" -> Parsed(Integer(c.n), NoErr, Advance(p))
            [] c.t = "var" ->
                 LET new == NewVariable(c.b, p.variablesMap, p.cells)
                 IN Parsed(VariableRef(new.ptr), NoErr,
                           [Advance(p) EXCEPT !.variablesMap = new.variablesMap,
                                              !.cells = new.cells])
            [] c.t = "str" -> Parsed(String(c.b), NoErr, Advance(p))
            [] c.t = "fn" ->
                 IF c.c \notin FunctionKeys
                 THEN Parsed(Nil, Err("[line %d] unknown token start: %c"), Advance(p))
                 ELSE ParseArguments(Advance(p), c.c, 0, <<>>)

(***************************************************************************)
(* The state of a run of Evaluate.                                         *)
(***************************************************************************)
VARIABLES
  source,        \* the program given to Evaluate (tokens)
  goarch,        \* the architecture the interpreter was built for
  variablesMap,  \* the global map of variable names to cells
  cells,         \* the Variable structs, by address
  stack,         \* the activations of handlers, innermost last
  ctl,           \* what the machine does next (see below)
  stdout,        \* the bytes written to standard output
  trace,         \* history: the completed activations, in order of return
  result,        \* what Evaluate returned
  asciiCall,     \* a call of ascii on its own, with Go's 64-bit int (see Ascii)
  parsing,       \* a call of ParseNextValue on its own, on a source of runes
  playing,       \* the calls of Play and PlayWithEnvironment made so far
  slices         \* Go's slices behind the Lists: the arrays and the slices made

\* The variables of the functions that are modelled on their own; a run of
\* Evaluate leaves them alone.
aside == <<asciiCall, parsing, playing, slices>>

vars == <<aside, source, goarch, variablesMap, cells, stack, ctl, stdout, trace, result>>

(***************************************************************************)
(* ctl.mode:                                                               *)
(*   "start"  Evaluate has not been called yet                             *)
(*   "exec"   ctl.val.Execute() is being called                            *)
(*   "run"    the handler of the top activation starts                     *)
(*   "ret"    (ctl.val, ctl.err) is returned to the top activation, or to  *)
(*            Evaluate when the stack is empty                             *)
(*   "done"   Evaluate has returned result                                 *)
(*   "panic"  the process died of a Go panic                               *)
(*   "exit"   os.Exit was called, with the status ctl.val                  *)
(*   "fatal"  the Go runtime stopped the process: the stack is exhausted   *)
(***************************************************************************)
Ctl(mode, val, err) == [mode |-> mode, val |-> val, err |-> err]

(***************************************************************************)
(* What a handler does next, given the result r of the Execute call it was *)
(* waiting for:                                                            *)
(*   "exec"    call val.Execute() and resume at pc with the locals loc;    *)
(*             idx is the index of val in args, or -1 if it is not one     *)
(*   "return"  return (val, err), after writing out to stdout when wr and  *)
(*             after assigning val to the cell ptr when ptr # 0            *)
(*   "panic"   panic                                                       *)
(*   "exit"    call os.Exit(val)                                           *)
(***************************************************************************)
Exec(value, idx, pc, loc) ==
  [op |-> "exec", val |-> value, err |-> NoErr, idx |-> idx, pc |-> pc, loc |-> loc,
   wr |-> FALSE, out |-> <<>>, ptr |-> 0]
ReturnResult(r) ==
  [op |-> "return", val |-> r.val, err |-> r.err, idx |-> -1, pc |-> 0, loc |-> <<>>,
   wr |-> FALSE, out |-> <<>>, ptr |-> 0]
Return(value) == ReturnResult(Ok(value))
Raise(er) == ReturnResult(Fail(er))
PrintAndReturn(bytes, value) == [Return(value) EXCEPT !.wr = TRUE, !.out = bytes]
AssignAndReturn(ptr, value) == [Return(value) EXCEPT !.ptr = ptr]
Panic == [Return(Nil) EXCEPT !.op = "panic"]
Exit(status) == [Return(Integer(status)) EXCEPT !.op = "exit"]

\* args[i] with Go's 0-based index.
Arg(args, i) == args[i + 1]

\* The part of executeToBool / executeToInt / executeToString / executeToSlice
\* after value.Execute() has returned r.
executeToBool(r) == IF ~IsOk(r) THEN Fail(r.err) ELSE Value_ToBool(r.val)
executeToInt(r) == IF ~IsOk(r) THEN Fail(r.err) ELSE Value_ToInt(r.val)
executeToString(r) == IF ~IsOk(r) THEN Fail(r.err) ELSE Value_ToString(r.val)
executeToSlice(r) == IF ~IsOk(r) THEN Fail(r.err) ELSE Value_ToSlice(r.val)

(***************************************************************************)
(* The handlers.  h(args, pc, loc, r): pc = 0 is the entry of the handler, *)
(* pc = i > 0 the point after its i-th Execute call, which returned r.     *)
(***************************************************************************)
\* Arity 0
true_(args, pc, loc, r) == Return(Boolean(TRUE))
false_(args, pc, loc, r) == Return(Boolean(FALSE))
null(args, pc, loc, r) == Return(Null)
emptyList(args, pc, loc, r) == Return(List(<<>>))

\* Arity 1
noop(args, pc, loc, r) ==
  IF pc = 0 THEN Exec(Arg(args, 0), 0, 1, <<>>)
  ELSE ReturnResult(r)

box(args, pc, loc, r) ==
  IF pc = 0 THEN Exec(Arg(args, 0), 0, 1, <<>>)
  ELSE IF ~IsOk(r) THEN Raise(r.err)
  ELSE Return(List(<<r.val>>))

head(args, pc, loc, r) ==
  IF pc = 0 THEN Exec(Arg(args, 0), 0, 1, <<>>)
  ELSE IF ~IsOk(r) THEN Raise(r.err)
  ELSE LET container == r.val
       IN CASE container.k = "List" ->
                 IF Len(container.e) = 0 THEN Raise(Err("empty list given to '['"))
                 ELSE Return(container.e[1])
            [] container.k = "String" ->
                 IF Len(container.b) = 0 THEN Raise(Err("empty string given to '['"))
                 ELSE Return(String(EncodeRune(container.b[1])))
            [] OTHER -> Raise(ErrT("invalid type given to '[': %T", TypeName(container)))

tail(args, pc, loc, r) ==
  IF pc = 0 THEN Exec(Arg(args, 0), 0, 1, <<>>)
  ELSE IF ~IsOk(r) THEN Raise(r.err)
  ELSE LET container == r.val
       IN CASE container.k = "List" ->
                 IF Len(container.e) = 0 THEN Raise(Err("empty list given to ']'"))
                 ELSE Return(ListSlice(container, 1, Len(container.e)))
            [] container.k = "String" ->
                 IF Len(container.b) = 0 THEN Raise(Err("empty string given to ']'"))
                 ELSE Return(String(Slice(container.b, 1, Len(container.b))))
            [] OTHER -> Raise(ErrT("invalid type given to ']': %T", TypeName(container)))

\* block executing its argument.
block_eager(args, pc, loc, r) ==
  IF pc = 0 THEN Exec(Arg(args, 0), 0, 1, <<>>) ELSE ReturnResult(r)

block(args, pc, loc, r) == Return(Arg(args, 0))

call(args, pc, loc, r) ==
  CASE pc = 0 -> Exec(Arg(args, 0), 0, 1, <<>>)
    [] pc = 1 -> IF ~IsOk(r) THEN Raise(r.err) ELSE Exec(r.val, -1, 2, <<>>)
    [] OTHER -> ReturnResult(r)

quit(args, pc, loc, r) ==
  IF pc = 0 THEN Exec(Arg(args, 0), 0, 1, <<>>)
  ELSE LET exitStatus == executeToInt(r)
       IN IF ~IsOk(exitStatus) THEN Raise(exitStatus.err)
          ELSE Exit(exitStatus.val.n)

not(args, pc, loc, r) ==
  IF pc = 0 THEN Exec(Arg(args, 0), 0, 1, <<>>)
  ELSE LET boolean == executeToBool(r)
       IN IF ~IsOk(boolean) THEN Raise(boolean.err)
          ELSE Return(Boolean(boolean.val.n = 0))

negate(args, pc, loc, r) ==
  IF pc = 0 THEN Exec(Arg(args, 0), 0, 1, <<>>)
  ELSE LET integer == executeToInt(r)
       IN IF ~IsOk(integer) THEN Raise(integer.err)
          ELSE Return(Integer(Wrap(-integer.val.n)))

length(args, pc, loc, r) ==
  IF pc = 0 THEN Exec(Arg(args, 0), 0, 1, <<>>)
  ELSE LET list == executeToSlice(r)
       IN IF ~IsOk(list) THEN Raise(list.err)
          ELSE Return(Integer(Len(list.val.e)))

dump(args, pc, loc, r) ==
  IF pc = 0 THEN Exec(Arg(args, 0), 0, 1, <<>>)
  ELSE IF ~IsOk(r) THEN Raise(r.err)
  ELSE PrintAndReturn(DumpBytes(r.val, CellNames(cells)), r.val)

output(args, pc, loc, r) ==
  IF pc = 0 THEN Exec(Arg(args, 0), 0, 1, <<>>)
  ELSE LET message == executeToString(r)
       IN IF ~IsOk(message) THEN Raise(message.err)
          ELSE LET m == message.val.b
               IN IF m # <<>> /\ m[Len(m)] = 92
                  THEN PrintAndReturn(Slice(m, 0, Len(m) - 1), Null)
                  ELSE PrintAndReturn(m \o <<10>>, Null)

\* Arity 2
\* An addition that executes both arguments before it looks at the first.
add_eager(args, pc, loc, r) ==
  CASE pc = 0 -> Exec(Arg(args, 0), 0, 1, <<>>)
    [] pc = 1 ->
         IF ~IsOk(r) THEN Raise(r.err)
         ELSE Exec(Arg(args, 1), 1, 2, <<r.val>>)
    [] OTHER ->
         LET lhs == loc[1]
         IN CASE lhs.k = "Integer" ->
                   LET rhs == executeToInt(r)
                   IN IF ~IsOk(rhs) THEN Raise(rhs.err)
                      ELSE Return(Integer(Wrap(lhs.n + rhs.val.n)))
              [] lhs.k = "String" ->
                   LET rhs == executeToString(r)
                   IN IF ~IsOk(rhs) THEN Raise(rhs.err)
                      ELSE Return(String(lhs.b \o rhs.val.b))
              [] lhs.k = "List" ->
                   LET rhs == executeToSlice(r)
                   IN IF ~IsOk(rhs) THEN Raise(rhs.err)
                      ELSE Return(slices_Concat(<<lhs, rhs.val>>))
              [] OTHER -> Raise(ErrT("invalid type given to '+': %T", TypeName(lhs)))

add(args, pc, loc, r) ==
  CASE pc = 0 -> Exec(Arg(args, 0), 0, 1, <<>>)
    [] pc = 1 ->
         IF ~IsOk(r) THEN Raise(r.err)
         ELSE IF r.val.k \in {"Integer", "String", "List"}
         THEN Exec(Arg(args, 1), 1, 2, <<r.val>>)
         ELSE Raise(ErrT("invalid type given to '+': %T", TypeName(r.val)))
    [] OTHER ->
         LET lhs == loc[1]
         IN CASE lhs.k = "Integer" ->
                   LET rhs == executeToInt(r)
                   IN IF ~IsOk(rhs) THEN Raise(rhs.err)
                      ELSE Return(Integer(Wrap(lhs.n + rhs.val.n)))
              [] lhs.k = "String" ->
                   LET rhs == executeToString(r)
                   IN IF ~IsOk(rhs) THEN Raise(rhs.err)
                      ELSE Return(String(lhs.b \o rhs.val.b))
              [] lhs.k = "List" ->
                   LET rhs == executeToSlice(r)
                   IN IF ~IsOk(rhs) THEN Raise(rhs.err)
                      ELSE Return(slices_Concat(<<lhs, rhs.val>>))

subtract(args, pc, loc, r) ==
  CASE pc = 0 -> Exec(Arg(args, 0), 0, 1, <<>>)
    [] pc = 1 ->
         IF ~IsOk(r) THEN Raise(r.err)
         ELSE IF r.val.k = "Integer" THEN Exec(Arg(args, 1), 1, 2, <<r.val>>)
         ELSE Raise(ErrT("invalid type given to '-': %T", TypeName(r.val)))
    [] OTHER ->
         LET lhs == loc[1]
             rhs == executeToInt(r)
         IN IF ~IsOk(rhs) THEN Raise(rhs.err)
            ELSE Return(Integer(Wrap(lhs.n - rhs.val.n)))

\* multiply with the check of the first argument's type before the second
\* argument is executed, as add has it.
multiply_checked(args, pc, loc, r) ==
  CASE pc = 0 -> Exec(Arg(args, 0), 0, 1, <<>>)
    [] pc = 1 ->
         IF ~IsOk(r) THEN Raise(r.err)
         ELSE IF r.val.k \in {"Integer", "String", "List"}
         THEN Exec(Arg(args, 1), 1, 2, <<r.val>>)
         ELSE Raise(ErrT("invalid type given to '*': %T", TypeName(r.val)))
    [] OTHER ->
         LET lhs == loc[1]
             rhs == executeToInt(r)
         IN IF ~IsOk(rhs) THEN Raise(rhs.err)
            ELSE IF lhs.k = "Integer" THEN Return(Integer(Wrap(lhs.n * rhs.val.n)))
            ELSE IF rhs.val.n < 0
            THEN Raise(ErrN("negative replication amount for a string in '*': %d", rhs.val.n))
            ELSE IF lhs.k = "String" THEN Return(String(Repeat(lhs.b, rhs.val.n)))
            ELSE Return(slices_Repeat(lhs, rhs.val.n))

multiply(args, pc, loc, r) ==
  CASE pc = 0 -> Exec(Arg(args, 0), 0, 1, <<>>)
    [] pc = 1 -> IF ~IsOk(r) THEN Raise(r.err) ELSE Exec(Arg(args, 1), 1, 2, <<r.val>>)
    [] OTHER ->
         LET lhs == loc[1]
             rhs == executeToInt(r)
         IN IF ~IsOk(rhs) THEN Raise(rhs.err)
            ELSE CASE lhs.k = "Integer" -> Return(Integer(Wrap(lhs.n * rhs.val.n)))
                   [] lhs.k = "String" ->
                        IF rhs.val.n < 0
                        THEN Raise(ErrN("negative replication amount for a string in '*': %d",
                                        rhs.val.n))
                        \* strings.Repeat panics when the length overflows an int
                        ELSE IF Len(lhs.b) * rhs.val.n > MaxInt THEN Panic
                        ELSE Return(String(Repeat(lhs.b, rhs.val.n)))
                   [] lhs.k = "List" ->
                        IF rhs.val.n < 0
                        THEN Raise(ErrN("negative replication amount for a list in '*': %d",
                                        rhs.val.n))
                        \* so does slices.Repeat
                        ELSE IF Len(lhs.e) * rhs.val.n > MaxInt THEN Panic
                        ELSE Return(slices_Repeat(lhs, rhs.val.n))
                   [] OTHER -> Raise(ErrT("invalid type given to '*': %T", TypeName(lhs)))

\* A division rounding toward minus infinity, which Go's / is not.
divide_floor(args, pc, loc, r) ==
  CASE pc = 0 -> Exec(Arg(args, 0), 0, 1, <<>>)
    [] pc = 1 ->
         IF ~IsOk(r) THEN Raise(r.err)
         ELSE IF r.val.k = "Integer" THEN Exec(Arg(args, 1), 1, 2, <<r.val>>)
         ELSE Raise(ErrT("invalid type given to '/': %T", TypeName(r.val)))
    [] OTHER ->
         LET lhs == loc[1]
             rhs == executeToInt(r)
         IN IF ~IsOk(rhs) THEN Raise(rhs.err)
            ELSE IF rhs.val.n = 0 THEN Raise(Err("zero divisor given to '/'"))
            ELSE IF rhs.val.n > 0 THEN Return(Integer(Wrap(lhs.n \div rhs.val.n)))
            ELSE Return(Integer(Wrap((-lhs.n) \div (-rhs.val.n))))

divide(args, pc, loc, r) ==
  CASE pc = 0 -> Exec(Arg(args, 0), 0, 1, <<>>)
    [] pc = 1 ->
         IF ~IsOk(r) THEN Raise(r.err)
         ELSE IF r.val.k = "Integer" THEN Exec(Arg(args, 1), 1, 2, <<r.val>>)
         ELSE Raise(ErrT("invalid type given to '/': %T", TypeName(r.val)))
    [] OTHER ->
         LET lhs == loc[1]
             rhs == executeToInt(r)
         IN IF ~IsOk(rhs) THEN Raise(rhs.err)
            ELSE IF rhs.val.n = 0 THEN Raise(Err("zero divisor given to '/'"))
            ELSE Return(Integer(Wrap(Quo(lhs.n, rhs.val.n))))

remainder(args, pc, loc, r) ==
  CASE pc = 0 -> Exec(Arg(args, 0), 0, 1, <<>>)
    [] pc = 1 ->
         IF ~IsOk(r) THEN Raise(r.err)
         ELSE IF r.val.k = "Integer" THEN Exec(Arg(args, 1), 1, 2, <<r.val>>)
         ELSE Raise(ErrT("invalid type given to '%%': %T", TypeName(r.val)))
    [] OTHER ->
         LET lhs == loc[1]
             rhs == executeToInt(r)
         IN IF ~IsOk(rhs) THEN Raise(rhs.err)
            ELSE IF rhs.val.n = 0 THEN Raise(Err("zero divisor given to '%'"))
            ELSE Return(Integer(Rem(lhs.n, rhs.val.n)))

RECURSIVE Power(_, _, _)
\* base^exponent for exponent >= 0, or MaxInt + 2 once the magnitude no
\* longer fits an int (it never comes back: then |base| >= 2).
Power(base, exponent, acc) ==
  IF exponent = 0 THEN acc
  ELSE IF Abs(acc * base) > MaxInt + 1 THEN MaxInt + 2
  ELSE Power(base, exponent - 1, acc * base)

\* Integer(math.Pow(float64(lhs), float64(rhs))) for rhs >= 0.  The power is
\* exact here; converting a float that does not fit an int is
\* implementation-dependent in Go: amd64 gives the minimum int, arm64 saturates.
IntegerPow(lhs, rhs) ==
  LET exact == Power(lhs, rhs, 1)
      negative == lhs < 0 /\ rhs % 2 = 1
      fits == exact <= MaxInt + 1 /\ (IF negative THEN TRUE ELSE exact <= MaxInt)
                /\ exact >= MinInt
  IN IF fits THEN exact
     ELSE IF goarch = "amd64" THEN MinInt
     ELSE IF negative THEN MinInt ELSE MaxInt

exponentiate(args, pc, loc, r) ==
  CASE pc = 0 -> Exec(Arg(args, 0), 0, 1, <<>>)
    [] pc = 1 ->
         IF ~IsOk(r) THEN Raise(r.err)
         ELSE IF r.val.k \in {"Integer", "List"} THEN Exec(Arg(args, 1), 1, 2, <<r.val>>)
         ELSE Raise(ErrT("invalid type given to '^': %T", TypeName(r.val)))
    [] OTHER ->
         LET lhs == loc[1]
         IN CASE lhs.k = "Integer" ->
                   LET rhs == executeToInt(r)
                   IN IF ~IsOk(rhs) THEN Raise(rhs.err)
                      ELSE IF rhs.val.n < 0
                      THEN Raise(ErrN("negative exponent given to '^': %d", rhs.val.n))
                      ELSE Return(Integer(IntegerPow(lhs.n, rhs.val.n)))
              [] lhs.k = "List" ->
                   LET sep == executeToString(r)
                   IN IF ~IsOk(sep) THEN Raise(sep.err)
                      ELSE LET joined == Join(lhs, sep.val.b, 0)
                           IN IF ~IsOk(joined) THEN Raise(joined.err)
                              ELSE Return(joined.val)

RECURSIVE strings_Compare(_, _)
\* strings.Compare: -1, 0 or +1 by the bytes.
strings_Compare(a, b) ==
  IF a = <<>> /\ b = <<>> THEN 0
  ELSE IF a = <<>> THEN -1
  ELSE IF b = <<>> THEN 1
  ELSE IF Head(a) < Head(b) THEN -1
  ELSE IF Head(a) > Head(b) THEN 1
  ELSE strings_Compare(Tail(a), Tail(b))

RECURSIVE compare(_, _)
RECURSIVE compareElements(_, _, _)
\* The element-wise loop of compare on two lists, from index i (0-based).
compareElements(lhs, rhs, i) ==
  LET minLen == IF Len(rhs.e) < Len(lhs.e) THEN Len(rhs.e) ELSE Len(lhs.e)
  IN IF i >= minLen THEN Ok(Integer(Len(lhs.e) - Len(rhs.e)))
     ELSE LET cmp == compare(lhs.e[i + 1], rhs.e[i + 1])
          IN IF ~IsOk(cmp) THEN Fail(cmp.err)
             ELSE IF cmp.val.n # 0 THEN cmp
             ELSE compareElements(lhs, rhs, i + 1)

\* compare: negative, zero or positive as lhs is less than, equal to or
\* greater than rhs coerced to the type of lhs.
compare(lhs, rhs) ==
  CASE lhs.k = "Integer" ->
         LET r == Value_ToInt(rhs)
         IN IF ~IsOk(r) THEN Fail(r.err) ELSE Ok(Integer(Wrap(lhs.n - r.val.n)))
    [] lhs.k = "String" ->
         LET r == Value_ToString(rhs)
         IN IF ~IsOk(r) THEN Fail(r.err) ELSE Ok(Integer(strings_Compare(lhs.b, r.val.b)))
    [] lhs.k = "Boolean" ->
         LET r == Value_ToBool(rhs)
         IN IF ~IsOk(r) THEN Fail(r.err)
            ELSE IF lhs.n = 0 /\ r.val.n = 1 THEN Ok(Integer(-1))
            ELSE IF lhs.n = 1 /\ r.val.n = 0 THEN Ok(Integer(1))
            ELSE Ok(Integer(0))
    [] lhs.k = "List" ->
         LET r == Value_ToSlice(rhs)
         IN IF ~IsOk(r) THEN Fail(r.err) ELSE compareElements(lhs, r.val, 0)
    [] OTHER -> Fail(ErrT("invalid type given to %q: %T", TypeName(lhs)))

\* lessThan with the right-hand side executed first.
lessThan_rhsFirst(args, pc, loc, r) ==
  CASE pc = 0 -> Exec(Arg(args, 1), 1, 1, <<>>)
    [] pc = 1 -> IF ~IsOk(r) THEN Raise(r.err) ELSE Exec(Arg(args, 0), 0, 2, <<r.val>>)
    [] OTHER ->
         IF ~IsOk(r) THEN Raise(r.err)
         ELSE LET cmp == compare(r.val, loc[1])
              IN IF ~IsOk(cmp) THEN Raise(cmp.err) ELSE Return(Boolean(cmp.val.n < 0))

lessThan(args, pc, loc, r) ==
  CASE pc = 0 -> Exec(Arg(args, 0), 0, 1, <<>>)
    [] pc = 1 -> IF ~IsOk(r) THEN Raise(r.err) ELSE Exec(Arg(args, 1), 1, 2, <<r.val>>)
    [] OTHER ->
         IF ~IsOk(r) THEN Raise(r.err)
         ELSE LET cmp == compare(loc[1], r.val)
              IN IF ~IsOk(cmp) THEN Raise(cmp.err) ELSE Return(Boolean(cmp.val.n < 0))

greaterThan(args, pc, loc, r) ==
  CASE pc = 0 -> Exec(Arg(args, 0), 0, 1, <<>>)
    [] pc = 1 -> IF ~IsOk(r) THEN Raise(r.err) ELSE Exec(Arg(args, 1), 1, 2, <<r.val>>)
    [] OTHER ->
         IF ~IsOk(r) THEN Raise(r.err)
         ELSE LET cmp == compare(loc[1], r.val)
              IN IF ~IsOk(cmp) THEN Raise(cmp.err) ELSE Return(Boolean(cmp.val.n > 0))

equalTo(args, pc, loc, r) ==
  CASE pc = 0 -> Exec(Arg(args, 0), 0, 1, <<>>)
    [] pc = 1 -> IF ~IsOk(r) THEN Raise(r.err) ELSE Exec(Arg(args, 1), 1, 2, <<r.val>>)
    [] OTHER ->
         IF ~IsOk(r) THEN Raise(r.err)
         ELSE Return(Boolean(DeepEqual(loc[1], r.val)))

\* and without the shortcut: the right-hand side is executed in every case.
and_eager(args, pc, loc, r) ==
  CASE pc = 0 -> Exec(Arg(args, 0), 0, 1, <<>>)
    [] pc = 1 -> IF ~IsOk(r) THEN Raise(r.err) ELSE Exec(Arg(args, 1), 1, 2, <<r.val>>)
    [] OTHER ->
         IF ~IsOk(r) THEN Raise(r.err)
         ELSE LET isTruthy == Value_ToBool(loc[1])
              IN IF ~IsOk(isTruthy) THEN Raise(isTruthy.err)
                 ELSE IF isTruthy.val.n = 1 THEN Return(r.val)
                 ELSE Return(loc[1])

and(args, pc, loc, r) ==
  CASE pc = 0 -> Exec(Arg(args, 0), 0, 1, <<>>)
    [] pc = 1 ->
         IF ~IsOk(r) THEN Raise(r.err)
         ELSE LET lhs == r.val
                  isTruthy == Value_ToBool(lhs)
              IN IF ~IsOk(isTruthy) THEN Raise(isTruthy.err)
                 ELSE IF isTruthy.val.n = 1 THEN Exec(Arg(args, 1), 1, 2, <<>>)
                 ELSE Return(lhs)
    [] OTHER -> ReturnResult(r)

or(args, pc, loc, r) ==
  CASE pc = 0 -> Exec(Arg(args, 0), 0, 1, <<>>)
    [] pc = 1 ->
         IF ~IsOk(r) THEN Raise(r.err)
         ELSE LET lhs == r.val
                  isTruthy == Value_ToBool(lhs)
              IN IF ~IsOk(isTruthy) THEN Raise(isTruthy.err)
                 ELSE IF isTruthy.val.n = 0 THEN Exec(Arg(args, 1), 1, 2, <<>>)
                 ELSE Return(lhs)
    [] OTHER -> ReturnResult(r)

\* then with the error of its first argument dropped.
then_ignoresError(args, pc, loc, r) ==
  CASE pc = 0 -> Exec(Arg(args, 0), 0, 1, <<>>)
    [] pc = 1 -> Exec(Arg(args, 1), 1, 2, <<>>)
    [] OTHER -> ReturnResult(r)

\* then executing its first argument again before the second.
then_again(args, pc, loc, r) ==
  CASE pc = 0 -> Exec(Arg(args, 0), 0, 1, <<>>)
    [] pc = 1 -> IF ~IsOk(r) THEN Raise(r.err) ELSE Exec(Arg(args, 0), 0, 2, <<>>)
    [] pc = 2 -> IF ~IsOk(r) THEN Raise(r.err) ELSE Exec(Arg(args, 1), 1, 3, <<>>)
    [] OTHER -> ReturnResult(r)

then(args, pc, loc, r) ==
  CASE pc = 0 -> Exec(Arg(args, 0), 0, 1, <<>>)
    [] pc = 1 -> IF ~IsOk(r) THEN Raise(r.err) ELSE Exec(Arg(args, 1), 1, 2, <<>>)
    [] OTHER -> ReturnResult(r)

\* assign returning Null in place of the assigned value.
assign_discard(args, pc, loc, r) ==
  IF pc = 0
  THEN IF Arg(args, 0).k # "Variable"
       THEN Raise(ErrT("invalid type given to '=': %T", TypeName(Arg(args, 0))))
       ELSE Exec(Arg(args, 1), 1, 1, <<>>)
  ELSE IF ~IsOk(r) THEN Raise(r.err)
  ELSE [AssignAndReturn(Arg(args, 0).n, r.val) EXCEPT !.val = Null]

assign(args, pc, loc, r) ==
  IF pc = 0
  THEN IF Arg(args, 0).k # "Variable"
       THEN Raise(ErrT("invalid type given to '=': %T", TypeName(Arg(args, 0))))
       ELSE Exec(Arg(args, 1), 1, 1, <<>>)
  ELSE IF ~IsOk(r) THEN Raise(r.err)
  ELSE AssignAndReturn(Arg(args, 0).n, r.val)

\* while with the body executed before the first test of the condition.
while_bodyFirst(args, pc, loc, r) ==
  CASE pc = 0 -> Exec(Arg(args, 1), 1, 2, <<>>)
    [] pc = 1 ->
         LET condition == executeToBool(r)
         IN IF ~IsOk(condition) THEN Raise(condition.err)
            ELSE IF condition.val.n = 0 THEN Return(Null)
            ELSE Exec(Arg(args, 1), 1, 2, <<>>)
    [] OTHER -> IF ~IsOk(r) THEN Raise(r.err) ELSE Exec(Arg(args, 0), 0, 1, <<>>)

\* pc = 1: after the condition; pc = 2: after the body.
while(args, pc, loc, r) ==
  CASE pc = 0 -> Exec(Arg(args, 0), 0, 1, <<>>)
    [] pc = 1 ->
         LET condition == executeToBool(r)
         IN IF ~IsOk(condition) THEN Raise(condition.err)
            ELSE IF condition.val.n = 0 THEN Return(Null)
            ELSE Exec(Arg(args, 1), 1, 2, <<>>)
    [] OTHER -> IF ~IsOk(r) THEN Raise(r.err) ELSE Exec(Arg(args, 0), 0, 1, <<>>)

\* Arity 3
if_(args, pc, loc, r) ==
  CASE pc = 0 -> Exec(Arg(args, 0), 0, 1, <<>>)
    [] pc = 1 ->
         LET condition == executeToBool(r)
         IN IF ~IsOk(condition) THEN Raise(condition.err)
            ELSE IF condition.val.n = 1 THEN Exec(Arg(args, 1), 1, 2, <<>>)
            ELSE Exec(Arg(args, 2), 2, 2, <<>>)
    [] OTHER -> ReturnResult(r)

\* loc = <<collection, start>>.  A slice expression whose bounds are out of
\* range (stop wrapped around to a negative number) panics.
get(args, pc, loc, r) ==
  CASE pc = 0 -> Exec(Arg(args, 0), 0, 1, <<>>)
    [] pc = 1 -> IF ~IsOk(r) THEN Raise(r.err) ELSE Exec(Arg(args, 1), 1, 2, <<r.val>>)
    [] pc = 2 ->
         LET start == executeToInt(r)
         IN IF ~IsOk(start) THEN Raise(start.err)
            ELSE IF start.val.n < 0
            THEN Raise(ErrN("negative start given to 'GET': %d", start.val.n))
            ELSE Exec(Arg(args, 2), 2, 3, <<loc[1], start.val>>)
    [] OTHER ->
         LET collection == loc[1]
             start == loc[2].n
             amount == executeToInt(r)
             stop == Wrap(start + amount.val.n)
         IN IF ~IsOk(amount) THEN Raise(amount.err)
            ELSE IF amount.val.n < 0
            THEN Raise(ErrN("negative length given to GET: '%d'", amount.val.n))
            ELSE CASE collection.k = "String" ->
                        IF Len(collection.b) < stop
                        THEN Raise(ErrN("string index out of bounds for 'GET': %d < %d", stop))
                        ELSE IF stop < start THEN Panic
                        ELSE Return(String(Slice(collection.b, start, stop)))
                   [] collection.k = "List" ->
                        IF Len(collection.e) < stop
                        THEN Raise(ErrN("list index out of bounds for 'GET': %d < %d", stop))
                        ELSE IF stop < start THEN Panic
                        ELSE Return(ListSlice(collection, start, stop))
                   [] OTHER ->
                        Raise(ErrT("invalid type given to 'GET': %T", TypeName(collection)))

\* Arity 4
\* loc = <<collection, start, length>>.
set(args, pc, loc, r) ==
  CASE pc = 0 -> Exec(Arg(args, 0), 0, 1, <<>>)
    [] pc = 1 -> IF ~IsOk(r) THEN Raise(r.err) ELSE Exec(Arg(args, 1), 1, 2, <<r.val>>)
    [] pc = 2 ->
         LET start == executeToInt(r)
         IN IF ~IsOk(start) THEN Raise(start.err)
            ELSE IF start.val.n < 0
            THEN Raise(ErrN("negative start given to 'SET': %d", start.val.n))
            ELSE Exec(Arg(args, 2), 2, 3, <<loc[1], start.val>>)
    [] pc = 3 ->
         LET collection == loc[1]
             start == loc[2].n
             amount == executeToInt(r)
             stop == Wrap(start + amount.val.n)
         IN IF ~IsOk(amount) THEN Raise(amount.err)
            ELSE IF amount.val.n < 0
            THEN Raise(ErrN("negative length given to 'SET': %d", amount.val.n))
            ELSE CASE collection.k = "String" ->
                        IF Len(collection.b) < stop
                        THEN Raise(ErrN("string index out of bounds for 'SET': %d < %d", stop))
                        ELSE Exec(Arg(args, 3), 3, 4, <<loc[1], loc[2], amount.val>>)
                   [] collection.k = "List" ->
                        IF Len(collection.e) < stop
                        THEN Raise(ErrN("list index out of bounds for 'SET': %d < %d", stop))
                        ELSE Exec(Arg(args, 3), 3, 4, <<loc[1], loc[2], amount.val>>)
                   [] OTHER ->
                        Raise(ErrT("invalid type given to 'SET': %T", TypeName(collection)))
    [] OTHER ->
         LET collection == loc[1]
             start == loc[2].n
             stop == Wrap(start + loc[3].n)
         IN IF collection.k = "String"
            THEN LET replacement == executeToString(r)
                 IN IF ~IsOk(replacement) THEN Raise(replacement.err)
                    ELSE IF stop < start THEN Panic
                    ELSE Return(String(Slice(collection.b, 0, start) \o replacement.val.b
                                       \o Slice(collection.b, stop, Len(collection.b))))
            ELSE LET replacement == executeToSlice(r)
                 IN IF ~IsOk(replacement) THEN Raise(replacement.err)
                    ELSE IF stop < start THEN Panic
                    ELSE Return(slices_Concat(<<ListSlice(collection, 0, start),
                                                replacement.val,
                                                ListSlice(collection, stop, Len(collection.e))>>))

(***************************************************************************)
(* The machine.                                                            *)
(***************************************************************************)
\* What an observer sees of the state: the variables and standard output.
Snapshot == [cells |-> cells, stdout |-> stdout]

\* An activation of a handler: the function f and the arguments e of the
\* Ast, the handler's position pc and locals loc; and, as history, the
\* Execute calls it has made (hist), the snapshot at its entry (pre) and the
\* number of activations that had returned by then (since).
Frame(ast) == [f |-> ast.f, e |-> ast.e, pc |-> 0, loc |-> <<>>, hist |-> <<>>,
               pre |-> Snapshot, since |-> Len(trace)]

\* An entry of hist: the index idx of the executed argument (-1 when the
\* executed value is not an argument), the value node executed, the snapshot
\* at the call (pre) and, once it has returned (done), its result (val, err)
\* and the snapshot at its return (post).
Called(idx, node) == [idx |-> idx, node |-> node, done |-> FALSE, val |-> Nil,
                      err |-> NoErr, pre |-> Snapshot, post |-> Snapshot]

Top == stack[Len(stack)]

\* hist of the top activation, with the result in ctl recorded in its last entry.
Returned(hist) ==
  IF ctl.mode = "ret" /\ hist # <<>>
  THEN [hist EXCEPT ![Len(hist)] = [@ EXCEPT !.done = TRUE, !.val = ctl.val,
                                             !.err = ctl.err, !.post = Snapshot]]
  ELSE hist

\* Evaluate, up to its call of value.Execute(): parse the source.
Evaluate ==
  /\ ctl.mode = "start"
  /\ LET parser == NewParser(source, variablesMap, cells)
         parsed == ParseNextValue(parser)
     IN /\ variablesMap' = parsed.p.variablesMap
        /\ cells' = parsed.p.cells
        /\ IF parsed.panicked
           THEN ctl' = Ctl("panic", Nil, NoErr) /\ UNCHANGED result
           ELSE IF parsed.err # NoErr
           THEN /\ ctl' = Ctl("done", Nil, NoErr)
                /\ result' = Fail(ErrWrap("compile error: %v", parsed.err))
           ELSE ctl' = Ctl("exec", parsed.val, NoErr) /\ UNCHANGED result
  /\ UNCHANGED <<aside, source, goarch, stack, stdout, trace>>

\* Evaluate, from the return of value.Execute().
EvaluateReturn ==
  /\ ctl.mode = "ret"
  /\ stack = <<>>
  /\ ctl' = Ctl("done", Nil, NoErr)
  /\ result' = IF ctl.err # NoErr
               THEN Fail(ErrWrap("runtime error: %v", ctl.err))
               ELSE Ok(ctl.val)
  /\ UNCHANGED <<aside, source, goarch, variablesMap, cells, stack, stdout, trace>>

\* The Execute of the literal types returns the value unchanged.
LiteralExecute ==
  /\ ctl.mode = "exec"
  /\ ctl' = Ctl("ret", ctl.val, NoErr)
  /\ UNCHANGED <<aside, source, goarch, variablesMap, cells, stack, stdout, trace, result>>

NullExecute ==
  /\ ctl.val.k = "Null"
  /\ LiteralExecute

BooleanExecute ==
  /\ ctl.val.k = "Boolean"
  /\ LiteralExecute

IntegerExecute ==
  /\ ctl.val.k = "Integer"
  /\ LiteralExecute

StringExecute ==
  /\ ctl.val.k = "String"
  /\ LiteralExecute

ListExecute ==
  /\ ctl.val.k = "List"
  /\ LiteralExecute


VariableExecute ==
  /\ ctl.mode = "exec"
  /\ ctl.val.k = "Variable"
  /\ LET r == Variable_Execute(ctl.val, cells)
     IN ctl' = Ctl("ret", r.val, r.err)
  /\ UNCHANGED <<aside, source, goarch, variablesMap, cells, stack, stdout, trace, result>>

\* Ast.Execute: call the function's handler with the arguments.
AstExecute ==
  /\ ctl.mode = "exec"
  /\ ctl.val.k = "Ast"
  /\ Len(stack) < MaxDepth
  /\ stack' = Append(stack, Frame(ctl.val))
  /\ ctl' = Ctl("run", Nil, NoErr)
  /\ UNCHANGED <<aside, source, goarch, variablesMap, cells, stdout, trace, result>>

\* Ast.Execute when the stack has no room for the call of the handler: the Go
\* runtime ends the process (fatal error: stack overflow).
StackOverflow ==
  /\ ctl.mode = "exec"
  /\ ctl.val.k = "Ast"
  /\ Len(stack) >= MaxDepth
  /\ ctl' = Ctl("fatal", Nil, NoErr)
  /\ UNCHANGED <<aside, source, goarch, variablesMap, cells, stack, stdout, trace, result>>

\* The activation on top of the stack is of the function with key c, and is
\* either entered or resumed by the return of the Execute it called.
Running(c) ==
  /\ ctl.mode \in {"run", "ret"}
  /\ stack # <<>>
  /\ Top.f = c

\* The handler h runs from where it is up to its next Execute call, its
\* return or its panic.
Step(h(_, _, _, _)) ==
  /\ LET top == Top
         hist == Returned(top.hist)
         cmd == h(top.e, top.pc, top.loc, [val |-> ctl.val, err |-> ctl.err])
         assigned == IF cmd.ptr # 0
                     THEN Variable_Assign(cmd.ptr, cmd.val, cells)
                     ELSE [panicked |-> FALSE, cells |-> cells]
         written == IF cmd.wr THEN stdout \o cmd.out ELSE stdout
     IN CASE cmd.op = "exec" ->
               /\ stack' = [stack EXCEPT ![Len(stack)] =
                              [top EXCEPT !.pc = cmd.pc, !.loc = cmd.loc,
                                          !.hist = Append(hist, Called(cmd.idx, cmd.val))]]
               /\ ctl' = Ctl("exec", cmd.val, NoErr)
               /\ UNCHANGED <<cells, stdout, trace>>
          [] cmd.op = "return" /\ ~assigned.panicked ->
               /\ stack' = SubSeq(stack, 1, Len(stack) - 1)
               /\ ctl' = Ctl("ret", cmd.val, cmd.err)
               /\ cells' = assigned.cells
               /\ stdout' = written
               /\ trace' = Append(trace,
                             [f |-> top.f, e |-> top.e, hist |-> hist, val |-> cmd.val,
                              err |-> cmd.err, pre |-> top.pre, since |-> top.since,
                              post |-> [cells |-> assigned.cells, stdout |-> written]])
          [] cmd.op = "exit" ->
               /\ ctl' = Ctl("exit", cmd.val, NoErr)
               /\ stack' = [stack EXCEPT ![Len(stack)] = [top EXCEPT !.hist = hist]]
               /\ UNCHANGED <<cells, stdout, trace>>
          [] OTHER ->
               /\ ctl' = Ctl("panic", Nil, NoErr)
               /\ stack' = [stack EXCEPT ![Len(stack)] = [top EXCEPT !.hist = hist]]
               /\ UNCHANGED <<cells, stdout, trace>>
  /\ UNCHANGED <<aside, source, goarch, variablesMap, result>>

\* One action for each function of KnownFunctions.
Handle_true ==
  /\ Running("T")
  /\ Step(true_)

Handle_false ==
  /\ Running("F")
  /\ Step(false_)

Handle_null ==
  /\ Running("N")
  /\ Step(null)

Handle_emptyList ==
  /\ Running("@")
  /\ Step(emptyList)

Handle_noop ==
  /\ Running(":")
  /\ Step(noop)

Handle_box ==
  /\ Running(",")
  /\ Step(box)

Handle_head ==
  /\ Running("[")
  /\ Step(head)

Handle_tail ==
  /\ Running("]")
  /\ Step(tail)

Handle_block ==
  /\ Running("B")
  /\ Step(block)

Handle_call ==
  /\ Running("C")
  /\ Step(call)

Handle_quit ==
  /\ Running("Q")
  /\ Step(quit)

Handle_not ==
  /\ Running("!")
  /\ Step(not)

Handle_negate ==
  /\ Running("~")
  /\ Step(negate)

Handle_length ==
  /\ Running("L")
  /\ Step(length)

Handle_dump ==
  /\ Running("D")
  /\ Step(dump)

Handle_output ==
  /\ Running("O")
  /\ Step(output)

Handle_add ==
  /\ Running("+")
  /\ Step(add)

Handle_subtract ==
  /\ Running("-")
  /\ Step(subtract)

Handle_multiply ==
  /\ Running("*")
  /\ Step(multiply)

Handle_divide ==
  /\ Running("/")
  /\ Step(divide)

Handle_remainder ==
  /\ Running("%")
  /\ Step(remainder)

Handle_exponentiate ==
  /\ Running("^")
  /\ Step(exponentiate)

Handle_lessThan ==
  /\ Running("<")
  /\ Step(lessThan)

Handle_greaterThan ==
  /\ Running(">")
  /\ Step(greaterThan)

Handle_equalTo ==
  /\ Running("?")
  /\ Step(equalTo)

Handle_and ==
  /\ Running("&")
  /\ Step(and)

Handle_or ==
  /\ Running("|")
  /\ Step(or)

Handle_then ==
  /\ Running(";")
  /\ Step(then)

Handle_assign ==
  /\ Running("=")
  /\ Step(assign)

Handle_while ==
  /\ Running("W")
  /\ Step(while)

Handle_if ==
  /\ Running("I")
  /\ Step(if_)

Handle_get ==
  /\ Running("G")
  /\ Step(get)

Handle_set ==
  /\ Running("S")
  /\ Step(set)

(***************************************************************************)
(* ascii on its own.  An int of Go has 64 bits and a rune 32, which is as   *)
(* wide as the integers here are: an int is held as its two halves, hi the  *)
(* upper 32 bits and lo the lower 32 bits, each read as a signed 32-bit     *)
(* number.  The int is hi * 2^32 + lo when lo >= 0.                         *)
(***************************************************************************)
Int64(hi, lo) == [k |-> "Integer", hi |-> hi, lo |-> lo, b |-> <<>>]
Text(bs) == [k |-> "String", hi |-> 0, lo |-> 0, b |-> bs]
NoValue == [k |-> "nil", hi |-> 0, lo |-> 0, b |-> <<>>]

\* rune(value): the conversion of an int to int32 keeps the lower 32 bits.
rune(value) == value.lo
\* Integer(rune): the conversion of an int32 to int extends the sign.
IntegerOfRune(r) == Int64(IF r < 0 THEN -1 ELSE 0, r)

\* utf8.ValidRune
utf8_ValidRune(r) ==
  \/ 0 <= r /\ r < 55296
  \/ 57343 < r /\ r <= 1114111

\* string(rune): the UTF-8 encoding of a valid rune.
utf8_Encode(r) ==
  IF r < 128 THEN <<r>>
  ELSE IF r < 2048 THEN <<192 + (r \div 64), 128 + (r % 64)>>
  ELSE IF r < 65536
  THEN <<224 + (r \div 4096), 128 + ((r \div 64) % 64), 128 + (r % 64)>>
  ELSE <<240 + (r \div 262144), 128 + ((r \div 4096) % 64),
         128 + ((r \div 64) % 64), 128 + (r % 64)>>

\* utf8.DecodeRuneInString of a string that is not empty: the first rune, or
\* utf8.RuneError (U+FFFD) when the string does not start with an encoding.
utf8_DecodeRuneInString(bs) ==
  LET w == RuneWidth(bs)
      c == Head(bs)
  IN IF w = 1 THEN (IF c < 128 THEN c ELSE 65533)
     ELSE IF w = 2 THEN (c - 192) * 64 + (bs[2] - 128)
     ELSE IF w = 3 THEN (c - 224) * 4096 + (bs[2] - 128) * 64 + (bs[3] - 128)
     ELSE (c - 240) * 262144 + (bs[2] - 128) * 4096 + (bs[3] - 128) * 64 + (bs[4] - 128)

\* ascii, after its argument has executed to value.
ascii(value) ==
  CASE value.k = "Integer" ->
         IF ~utf8_ValidRune(rune(value))
         THEN [val |-> NoValue, err |-> "invalid integer given to 'ASCII': %d"]
         ELSE [val |-> Text(utf8_Encode(rune(value))), err |-> ""]
    [] value.k = "String" ->
         IF value.b = <<>>
         THEN [val |-> NoValue, err |-> "empty string given to 'ASCII'"]
         ELSE [val |-> IntegerOfRune(utf8_DecodeRuneInString(value.b)), err |-> ""]
    [] OTHER -> [val |-> NoValue, err |-> "invalid type given to 'ASCII': %T"]

\* No call of ascii is modelled.
NoCall == [n |-> NoValue, calls |-> 0, first |-> [val |-> NoValue, err |-> ""],
           second |-> [val |-> NoValue, err |-> ""]]

\* The halves of the ints that ASCII is called on: around 0, around the ends
\* of the encodings of 1, 2, 3 and 4 bytes, around the surrogates, around
\* the last rune, and at the ends of the 32 bits.
Halves == {(-2147483647) - 1, -2147483647, -65, -1, 0, 1, 65, 127, 128, 233, 2047, 2048,
           55295, 55296, 57343, 57344, 65533, 65535, 65536, 128513, 1114111, 1114112,
           1234567, 2147483647}
UpperHalves == {(-2147483647) - 1, -1, 0, 1, 2147483647}

\* The tuple of the variables of a run of Evaluate, which ascii on its own
\* does not use.
run == <<source, goarch, variablesMap, cells, stack, ctl, stdout, trace, result>>

\* No run of Evaluate is modelled.
NoRun ==
  /\ source = <<>>
  /\ goarch = "amd64"
  /\ variablesMap = <<>>
  /\ cells = <<>>
  /\ stack = <<>>
  /\ ctl = Ctl("done", Nil, NoErr)
  /\ stdout = <<>>
  /\ trace = <<>>
  /\ result = Ok(Nil)

AsciiInit ==
  /\ NoRun
  /\ parsing = NoParse
  /\ playing = NoPlay
  /\ slices = NoSlices
  /\ \E hi \in UpperHalves, lo \in Halves : asciiCall = [NoCall EXCEPT !.n = Int64(hi, lo)]

\* ASCII n
AsciiOfInteger ==
  /\ asciiCall.calls = 0
  /\ asciiCall' = [asciiCall EXCEPT !.calls = 1, !.first = ascii(asciiCall.n)]
  /\ UNCHANGED <<run, parsing, playing, slices>>

\* ASCII (ASCII n), when ASCII n returned a value
AsciiOfString ==
  /\ asciiCall.calls = 1
  /\ asciiCall.first.err = ""
  /\ asciiCall' = [asciiCall EXCEPT !.calls = 2, !.second = ascii(asciiCall.first.val)]
  /\ UNCHANGED <<run, parsing, playing, slices>>

AsciiNext ==
  \/ AsciiOfInteger
  \/ AsciiOfString

AsciiSpec == AsciiInit /\ [][AsciiNext]_vars

(***************************************************************************)
(* ParseNextValue on its own, on a source of runes (code points).  Go's    *)
(* recursion is unfolded: parsing.frames holds the calls of ParseNextValue *)
(* that are in the loop over a function's arguments, innermost last, each  *)
(* with its function, its startIndex, its loop index i and its arguments   *)
(* (make([]Value, arity): nil in the slots not yet assigned).              *)
(* parsing.mode:                                                           *)
(*   "parse"  ParseNextValue is being called                               *)
(*   "ret"    (val, err) is returned to the loop of the innermost frame,   *)
(*            or to the caller when there is none                          *)
(*   "done"   the call has returned (val, err)                             *)
(*   "panic"  the process died of a Go panic                               *)
(*   "idle"   no call is modelled                                          *)
(***************************************************************************)
\* The runes below 128, on which the predicates of unicode are those of ASCII.
Rune == 0..127
isntNewLine == [r \in Rune |-> r # 10]
isVariableStart == [r \in Rune |-> (97 <= r /\ r <= 122) \/ r = 95]
isVariableBody == [r \in Rune |-> isVariableStart[r] \/ (48 <= r /\ r <= 57)]
isWordFunctionCharacter == [r \in Rune |-> (65 <= r /\ r <= 90) \/ r = 95]
isWhitespace == [r \in Rune |-> IsSpace(r)]

\* linenoAt: the number of newlines before index.
linenoAt(p, index) == Cardinality({i \in 1..index : p.source[i] = 10})

\* TakeWhile: the parser after the runes that satisfy condition, and the runes.
RECURSIVE TakeWhile(_, _)
TakeWhile(p, condition) ==
  IF ~IsAtEnd(p) /\ condition[Peek(p)]
  THEN LET rest == TakeWhile(Advance(p), condition)
       IN [p |-> rest.p, taken |-> <<Peek(p)>> \o rest.taken]
  ELSE [p |-> p, taken |-> <<>>]

\* strconv.Atoi of a run of digits, its error ignored: the largest int when
\* the number is out of range.
strconv_Atoi(digits) ==
  LET value == DigitsValue(digits, 0) IN IF value > MaxInt THEN MaxInt ELSE value

\* KnownFunctions[c]: every key is the first rune of its function's name.
IsKnownFunction(c) == \E key \in FunctionKeys : Head(KnownFunctions(key).name) = c
FunctionOf(c) == CHOOSE key \in FunctionKeys : Head(KnownFunctions(key).name) = c

\* Which production of ParseNextValue the rune c starts, in the order of its tests.
Production(c) ==
  IF isWhitespace[c] \/ c = 40 \/ c = 41 THEN "whitespace"
  ELSE IF c = 35 THEN "comment"
  ELSE IF isDigit(c) THEN "integer"
  ELSE IF isVariableStart[c] THEN "variable"
  ELSE IF c = 39 \/ c = 34 THEN "string"
  ELSE "function"

\* The string production without the test for the end of the source.
ParseString_unchecked(p) ==
  LET contents == TakeWhile(Advance(p), [r \in Rune |-> r # Peek(p)])
  IN Parsed(String(contents.taken), NoErr, Advance(contents.p))

\* The string production: from the opening quote to the closing one.
ParseString(p) ==
  LET startIndex == p.index
      quote == Peek(p)
      contents == TakeWhile(Advance(p), [r \in Rune |-> r # quote])
  IN IF IsAtEnd(contents.p)
     THEN Parsed(Nil, ErrLine("[line %d] unterminated %q string",
                              linenoAt(p, startIndex), <<quote>>, 0), contents.p)
     ELSE Parsed(String(contents.taken), NoErr, Advance(contents.p))

\* The variable production.
ParseVariable(p) ==
  LET name == TakeWhile(p, isVariableBody)
      new == NewVariable(name.taken, p.variablesMap, p.cells)
  IN Parsed(VariableRef(new.ptr), NoErr,
            [name.p EXCEPT !.variablesMap = new.variablesMap, !.cells = new.cells])

\* The parser after the name of a function: the word, or one rune.
AfterFunctionName(p) ==
  IF isWordFunctionCharacter[Peek(p)]
  THEN TakeWhile(p, isWordFunctionCharacter).p
  ELSE Advance(p)

\* The frame of a call of ParseNextValue that enters the loop over the
\* arguments of function.
ParseFrame(function, startIndex) ==
  [function |-> function, startIndex |-> startIndex, i |-> 0,
   arguments |-> [j \in 1..KnownFunctions(function).arity |-> Nil]]

\* The loop over the arguments stopping one argument early.
MoreArguments_short(frame) == frame.i + 1 < KnownFunctions(frame.function).arity

\* The test of the loop over the arguments.
MoreArguments(frame) == frame.i < KnownFunctions(frame.function).arity

\* The error with the loop index itself as the number of the argument.
MissingArgument_index(p, frame) ==
  ErrLine("[line %d] missing argument %d for function %q",
          linenoAt(p, frame.startIndex), KnownFunctions(frame.function).name, frame.i)

\* The error that replaces EndOfInput in the loop over the arguments.
MissingArgument(p, frame) ==
  ErrLine("[line %d] missing argument %d for function %q",
          linenoAt(p, frame.startIndex), KnownFunctions(frame.function).name, frame.i + 1)

\* ParseNextValue returns r.
ParseReturns(r) ==
  parsing' = [parsing EXCEPT !.p = r.p, !.val = r.val, !.err = r.err,
                             !.mode = IF r.p.panicked \/ r.panicked THEN "panic" ELSE "ret"]

\* ParseNextValue goes on with the parser p.
ParseOn(p) ==
  parsing' = [parsing EXCEPT !.p = p, !.mode = IF p.panicked THEN "panic" ELSE "parse"]

\* ParseNextValue is at the start of the production kind.
Parsing(kind) ==
  /\ parsing.mode = "parse"
  /\ ~IsAtEnd(parsing.p)
  /\ Production(Peek(parsing.p)) = kind

ParseAtEnd ==
  /\ parsing.mode = "parse"
  /\ IsAtEnd(parsing.p)
  /\ ParseReturns(Parsed(Nil, EndOfInput, parsing.p))
  /\ UNCHANGED <<run, asciiCall, playing, slices>>

ParseWhitespace ==
  /\ Parsing("whitespace")
  /\ ParseOn(Advance(parsing.p))
  /\ UNCHANGED <<run, asciiCall, playing, slices>>

ParseComment ==
  /\ Parsing("comment")
  /\ ParseOn(TakeWhile(parsing.p, isntNewLine).p)
  /\ UNCHANGED <<run, asciiCall, playing, slices>>

ParseInteger ==
  /\ Parsing("integer")
  /\ LET digits == TakeWhile(parsing.p, [r \in Rune |-> isDigit(r)])
     IN ParseReturns(Parsed(Integer(strconv_Atoi(digits.taken)), NoErr, digits.p))
  /\ UNCHANGED <<run, asciiCall, playing, slices>>

ParseVariableName ==
  /\ Parsing("variable")
  /\ ParseReturns(ParseVariable(parsing.p))
  /\ UNCHANGED <<run, asciiCall, playing, slices>>

ParseStringLiteral ==
  /\ Parsing("string")
  /\ ParseReturns(ParseString(parsing.p))
  /\ UNCHANGED <<run, asciiCall, playing, slices>>

\* The function production up to its loop: an unknown token, a function of
\* no arguments, or the first argument.
ParseFunction ==
  /\ Parsing("function")
  /\ LET c == Peek(parsing.p)
         p == AfterFunctionName(parsing.p)
         startIndex == p.index
     IN IF ~IsKnownFunction(c)
        THEN ParseReturns(Parsed(Nil, ErrLine("[line %d] unknown token start: %c",
                                              linenoAt(p, startIndex), <<c>>, 0), p))
        ELSE LET frame == ParseFrame(FunctionOf(c), startIndex)
             IN IF MoreArguments(frame)
                THEN parsing' = [parsing EXCEPT !.p = p, !.frames = Append(@, frame),
                                                !.mode = IF p.panicked THEN "panic" ELSE "parse"]
                ELSE LET ast == NewAst(frame.function, frame.arguments)
                     IN ParseReturns([Parsed(ast, NoErr, p) EXCEPT !.panicked = (ast = Nil)])
  /\ UNCHANGED <<run, asciiCall, playing, slices>>

\* The body of the loop after ParseNextValue returned for argument i.
ParseArgument ==
  /\ parsing.mode = "ret"
  /\ parsing.frames # <<>>
  /\ LET frame == parsing.frames[Len(parsing.frames)]
         callers == SubSeq(parsing.frames, 1, Len(parsing.frames) - 1)
         \* arguments[i], err = p.ParseNextValue()
         assigned == [frame EXCEPT !.arguments[frame.i + 1] = parsing.val]
         next == [assigned EXCEPT !.i = frame.i + 1]
     IN IF parsing.err # NoErr
        THEN parsing' = [parsing EXCEPT
                           !.frames = callers, !.val = Nil,
                           !.err = IF parsing.err = EndOfInput
                                   THEN MissingArgument(parsing.p, assigned)
                                   ELSE parsing.err]
        ELSE IF MoreArguments(next)
        THEN parsing' = [parsing EXCEPT !.frames = Append(callers, next), !.mode = "parse",
                                        !.val = Nil]
        ELSE LET ast == NewAst(next.function, next.arguments)
             IN parsing' = [parsing EXCEPT !.frames = callers, !.val = ast,
                                           !.mode = IF ast = Nil THEN "panic" ELSE "ret"]
  /\ UNCHANGED <<run, asciiCall, playing, slices>>

\* The outermost call returns to its caller.
ParseDone ==
  /\ parsing.mode = "ret"
  /\ parsing.frames = <<>>
  /\ parsing' = [parsing EXCEPT !.mode = "done"]
  /\ UNCHANGED <<run, asciiCall, playing, slices>>

\* The runes of the sources: a space, a newline, a parenthesis, the colon, the
\* start of a comment, a digit, a letter of a variable, a quote, functions of
\* two, one and no arguments, a rune that starts no token, the underscore.
Alphabet == {32, 10, 40, 58, 35, 49, 120, 39, 43, 68, 84, 36, 95}

\* The sources: every sequence of at most MaxSource runes of the alphabet.
Sources == UNION {[1..n -> Alphabet] : n \in 0..MaxSource}

ParserInit ==
  /\ NoRun
  /\ asciiCall = NoCall
  /\ playing = NoPlay
  /\ slices = NoSlices
  /\ \E text \in Sources :
       parsing = [NoParse EXCEPT !.p = NewParser(text, <<>>, <<>>), !.mode = "parse"]

ParserNext ==
  \/ ParseAtEnd
  \/ ParseWhitespace
  \/ ParseComment
  \/ ParseInteger
  \/ ParseVariableName
  \/ ParseStringLiteral
  \/ ParseFunction
  \/ ParseArgument
  \/ ParseDone

ParserSpec == ParserInit /\ [][ParserNext]_vars

(***************************************************************************)
(* The programs of the model.                                              *)
(***************************************************************************)
\* Variable names and string contents, as bytes.
n_a == <<97>>
n_b == <<98>>
n_f == <<102>>
n_i == <<105>>
n_n == <<110>>
n_x == <<120>>
n_y == <<121>>
n_foo == <<102, 111, 111>>
\* The UTF-8 bytes of the one rune U+00E9.
s_e_acute == <<195, 169>>
s_ab == <<97, 98>>
s_abc == <<97, 98, 99>>
s_done == <<100, 111, 110, 101>>
s_yes == <<121, 101, 115>>
s_no == <<110, 111>>
s_xeq == <<120, 61>>
s_hello_world == <<104, 101, 108, 108, 111, 32, 119, 111, 114, 108, 100>>

\* The end-to-end and error scenarios.
Scenarios == <<
  \* ; = a 3 ; = b 4 : OUTPUT + a b
  <<TFn(";"), TFn("="), TVar(n_a), TInt(3), TFn(";"), TFn("="), TVar(n_b), TInt(4),
    TFn(":"), TFn("O"), TFn("+"), TVar(n_a), TVar(n_b)>>,
  \* ; = f BLOCK * n 2 ; = n 5 ; OUTPUT CALL f ; = n 21 : OUTPUT CALL f
  <<TFn(";"), TFn("="), TVar(n_f), TFn("B"), TFn("*"), TVar(n_n), TInt(2),
    TFn(";"), TFn("="), TVar(n_n), TInt(5), TFn(";"), TFn("O"), TFn("C"), TVar(n_f),
    TFn(";"), TFn("="), TVar(n_n), TInt(21), TFn(":"), TFn("O"), TFn("C"), TVar(n_f)>>,
  \* OUTPUT + "x=" * "ab" 3
  <<TFn("O"), TFn("+"), TStr(s_xeq), TFn("*"), TStr(s_ab), TInt(3)>>,
  \* OUTPUT GET "hello world" 6 5
  <<TFn("O"), TFn("G"), TStr(s_hello_world), TInt(6), TInt(5)>>,
  \* OUTPUT IF (? + @ 1 ,1) "yes" "no"
  <<TFn("O"), TFn("I"), TFn("?"), TFn("+"), TFn("@"), TInt(1), TFn(","), TInt(1),
    TStr(s_yes), TStr(s_no)>>,
  \* OUTPUT / 10 3
  <<TFn("O"), TFn("/"), TInt(10), TInt(3)>>,
  \* / 1 0
  <<TFn("/"), TInt(1), TInt(0)>>,
  \* OUTPUT + TRUE 1
  <<TFn("O"), TFn("+"), TFn("T"), TInt(1)>>,
  \* OUTPUT foo
  <<TFn("O"), TVar(n_foo)>>,
  \* + 1
  <<TFn("+"), TInt(1)>>,
  \* (the empty source)
  <<>>,
  \* $ 1
  <<TFn("$"), TInt(1)>>
>>

\* Source text, put together from its tokens.
lit(i) == <<TInt(i)>>
ref(name) == <<TVar(name)>>
text(bs) == <<TStr(bs)>>
word(c) == <<TFn(c)>>
call1(c, a) == <<TFn(c)>> \o a
call2(c, a, b) == <<TFn(c)>> \o a \o b
call3(c, a, b, d) == <<TFn(c)>> \o a \o b \o d
call4(c, a, b, d, g) == <<TFn(c)>> \o a \o b \o d \o g

\* ; s1 ; s2 ... sN
RECURSIVE Sequence(_)
Sequence(ss) ==
  IF Len(ss) = 1 THEN ss[1] ELSE call2(";", Head(ss), Sequence(Tail(ss)))

\* The programs prog(x) for x in xs, and prog(x, y) for x in xs and y in ys.
ForEach(xs, prog(_)) == [i \in 1..Len(xs) |-> prog(xs[i])]
ForEachPair(xs, ys, prog(_, _)) ==
  [i \in 1..(Len(xs) * Len(ys)) |->
     prog(xs[((i - 1) \div Len(ys)) + 1], ys[((i - 1) % Len(ys)) + 1])]

\* ; = i 0 ; WHILE (< i count) ; OUTPUT i = i + i 1 : OUTPUT "done"
CountingLoop(count) ==
  Sequence(<<call2("=", ref(n_i), lit(0)),
             call2("W", call2("<", ref(n_i), lit(count)),
                        call2(";", call1("O", ref(n_i)),
                                   call2("=", ref(n_i), call2("+", ref(n_i), lit(1))))),
             call1(":", call1("O", text(s_done)))>>)

Loops ==
  [count \in 1..(MaxLoop + 1) |-> CountingLoop(count - 1)] \o <<
  \* WHILE FALSE DUMP 1
  call2("W", word("F"), call1("D", lit(1))),
  \* WHILE NULL DUMP 1
  call2("W", word("N"), call1("D", lit(1))),
  \* WHILE (BLOCK TRUE) DUMP 1
  call2("W", call1("B", word("T")), call1("D", lit(1))),
  \* ; WHILE @ DUMP 1 ; = i 2 ; WHILE i ; DUMP i = i - i 1 DUMP "done"
  Sequence(<<call2("W", word("@"), call1("D", lit(1))),
             call2("=", ref(n_i), lit(2)),
             call2("W", ref(n_i),
                        call2(";", call1("D", ref(n_i)),
                                   call2("=", ref(n_i), call2("-", ref(n_i), lit(1))))),
             call1("D", text(s_done))>>)
  >>

\* Operands: expressions without side effects, one or more of each kind.
Operands == <<
  lit(0), lit(1), lit(2), lit(7), call1("~", lit(3)),
  text(<<>>), text(<<97>>), text(s_ab), text(s_abc), text(<<50>>),
  word("T"), word("F"), word("N"),
  word("@"), call1(",", lit(1)), call2("+", call1(",", lit(1)), lit(23)),
  call1("B", word("T"))
>>

\* f (DUMP a) (DUMP b), for the functions of two arguments.
BinaryFunctions == <<"+", "-", "*", "/", "%", "^", "<", ">", "?", ";", "&", "|">>
Binary(c, a, b) == call2(c, call1("D", a), call1("D", b))
BinaryOn(a, b) == ForEach(BinaryFunctions, LAMBDA c : Binary(c, a, b))
Lefts == <<lit(7), call1("~", lit(3)), text(s_ab), text(<<50>>), word("T"), word("N"),
           word("@"), call2("+", call1(",", lit(1)), lit(23))>>
Rights == <<lit(0), lit(2), text(<<97>>), word("F"), word("@"), call1(",", lit(1))>>
Binaries == Concat(ForEachPair(Lefts, Rights, BinaryOn))

\* f a, DUMP f a and CALL f a, for the functions of one argument.
UnaryFunctions == <<":", ",", "[", "]", "B", "C", "!", "~", "L", "D", "O">>
UnaryOn(a) == ForEach(UnaryFunctions, LAMBDA c : call1("D", call1(c, a)))
CallOn(a) == ForEach(UnaryFunctions, LAMBDA c : call1("C", call1(c, a)))
Called1 == <<lit(1), text(s_ab), word("T"), word("N"), word("@"), call1("B", word("T"))>>
Unaries == Concat(ForEach(Operands, UnaryOn)) \o Concat(ForEach(Called1, CallOn))

\* GET and SET, on strings and lists, in and out of range.
Collections == <<text(s_abc), call2("+", call1(",", lit(1)), lit(23)), word("@"), lit(7)>>
Starts == <<lit(0), lit(1), lit(4), call1("~", lit(1))>>
Amounts == <<lit(0), lit(2), call1("~", lit(1))>>
GetOn(a) ==
  ForEachPair(Starts, Amounts,
    LAMBDA b, d : call1("D", call3("G", call1("D", a), call1("D", b), call1("D", d))))
SetOn(a) ==
  ForEachPair(Starts, Amounts,
    LAMBDA b, d : call1("D", call4("S", call1("D", a), call1("D", b), call1("D", d),
                                        call1("D", text(s_ab)))))
  \o ForEachPair(Starts, Amounts,
    LAMBDA b, d : call1("D", call4("S", a, b, d, word("@"))))
Conditions == <<
  \* DUMP IF a (DUMP "yes") (DUMP "no")
  ForEach(Operands, LAMBDA a : call1("D", call3("I", a, call1("D", text(s_yes)),
                                                     call1("D", text(s_no)))))
>>
Ranges == Concat(ForEach(Collections, GetOn)) \o Concat(ForEach(Collections, SetOn))
          \o Concat(Conditions)

\* Every function of two arguments in one program, each argument with an
\* effect on stdout: ; + D 7 D 2 ; - D 7 D 2 ... ; GET ... SET ...
Ordered == <<
  Sequence(ForEach(BinaryFunctions, LAMBDA c : Binary(c, lit(7), lit(2)))
           \o <<call3("G", call1("D", text(s_abc)), call1("D", lit(1)), call1("D", lit(1))),
                call4("S", call1("D", text(s_abc)), call1("D", lit(1)), call1("D", lit(1)),
                           call1("D", text(s_ab)))>>),
  \* ; & 0 (DUMP 1) ; & 1 (DUMP 2) ; | 1 (DUMP 3) | 0 (DUMP 4)
  Sequence(<<call2("&", lit(0), call1("D", lit(1))), call2("&", lit(1), call1("D", lit(2))),
             call2("|", lit(1), call1("D", lit(3))), call2("|", lit(0), call1("D", lit(4)))>>)
>>

\* Variables: assignment, reassignment, reads through other occurrences and
\* through blocks stored before the assignment.
Variables == <<
  \* ; = x 5 x
  Sequence(<<call2("=", ref(n_x), lit(5)), ref(n_x)>>),
  \* x
  ref(n_x),
  \* ; = x 1 ; DUMP x foo
  Sequence(<<call2("=", ref(n_x), lit(1)), call1("D", ref(n_x)), ref(n_foo)>>),
  \* ; = x BLOCK DUMP 1 x
  Sequence(<<call2("=", ref(n_x), call1("B", call1("D", lit(1)))), ref(n_x)>>),
  \* ; = x BLOCK DUMP 1 ; CALL x CALL x
  Sequence(<<call2("=", ref(n_x), call1("B", call1("D", lit(1)))),
             call1("C", ref(n_x)), call1("C", ref(n_x))>>),
  \* ; = f BLOCK x ; = x 7 ; DUMP CALL f ; = x 8 DUMP CALL f
  Sequence(<<call2("=", ref(n_f), call1("B", ref(n_x))), call2("=", ref(n_x), lit(7)),
             call1("D", call1("C", ref(n_f))), call2("=", ref(n_x), lit(8)),
             call1("D", call1("C", ref(n_f)))>>),
  \* ; = x = y 3 DUMP + x y
  Sequence(<<call2("=", ref(n_x), call2("=", ref(n_y), lit(3))),
             call1("D", call2("+", ref(n_x), ref(n_y)))>>),
  \* ; = x 1 ; = y x ; = x 2 ; DUMP x DUMP y
  Sequence(<<call2("=", ref(n_x), lit(1)), call2("=", ref(n_y), ref(n_x)),
             call2("=", ref(n_x), lit(2)), call1("D", ref(n_x)), call1("D", ref(n_y))>>),
  \* ; = x 1 ; = x + x x ; = x + x x DUMP x
  Sequence(<<call2("=", ref(n_x), lit(1)), call2("=", ref(n_x), call2("+", ref(n_x), ref(n_x))),
             call2("=", ref(n_x), call2("+", ref(n_x), ref(n_x))), call1("D", ref(n_x))>>),
  \* ; = x 1 ; = x foo DUMP x
  Sequence(<<call2("=", ref(n_x), lit(1)), call2("=", ref(n_x), ref(n_foo)),
             call1("D", ref(n_x))>>),
  \* ; = x N ; = y @ ; = a F ; DUMP x ; DUMP y DUMP a
  Sequence(<<call2("=", ref(n_x), word("N")), call2("=", ref(n_y), word("@")),
             call2("=", ref(n_a), word("F")), call1("D", ref(n_x)), call1("D", ref(n_y)),
             call1("D", ref(n_a))>>),
  \* ; = x OUTPUT 1 DUMP x
  Sequence(<<call2("=", ref(n_x), call1("O", lit(1))), call1("D", ref(n_x))>>),
  \* ; = x WHILE F 1 DUMP x
  Sequence(<<call2("=", ref(n_x), call2("W", word("F"), lit(1))), call1("D", ref(n_x))>>),
  \* = 12 34
  call2("=", lit(12), lit(34)),
  \* = "ab" DUMP 1
  call2("=", text(s_ab), call1("D", lit(1))),
  \* = (BLOCK x) DUMP 1
  call2("=", call1("B", ref(n_x)), call1("D", lit(1))),
  \* = (+ 1 2) DUMP 1
  call2("=", call2("+", lit(1), lit(2)), call1("D", lit(1))),
  \* DUMP = x DUMP 3
  call1("D", call2("=", ref(n_x), call1("D", lit(3)))),
  \* ; = x 1 DUMP BLOCK x
  Sequence(<<call2("=", ref(n_x), lit(1)), call1("D", call1("B", ref(n_x)))>>)
>>

\* Failing arguments: an undefined variable, a zero divisor, a type error.
Failures == <<ref(n_foo), call2("/", lit(1), lit(0)), call2("+", word("T"), lit(1))>>
FailIn(bad) == <<
  \* ; = x 1 ; = x bad DUMP x
  Sequence(<<call2("=", ref(n_x), lit(1)), call2("=", ref(n_x), bad), call1("D", ref(n_x))>>),
  \* ; = x 1 ; WHILE x ; DUMP x ; = x bad DUMP 2 DUMP 3
  Sequence(<<call2("=", ref(n_x), lit(1)),
             call2("W", ref(n_x), Sequence(<<call1("D", ref(n_x)), call2("=", ref(n_x), bad),
                                             call1("D", lit(2))>>)),
             call1("D", lit(3))>>),
  \* ; WHILE bad DUMP 1 DUMP 2
  Sequence(<<call2("W", bad, call1("D", lit(1))), call1("D", lit(2))>>),
  \* ; DUMP 1 ; OUTPUT + 1 - bad 2 DUMP 3
  Sequence(<<call1("D", lit(1)), call1("O", call2("+", lit(1), call2("-", bad, lit(2)))),
             call1("D", lit(3))>>),
  \* ; = f BLOCK ; DUMP 1 bad ; CALL f DUMP 2
  Sequence(<<call2("=", ref(n_f), call1("B", call2(";", call1("D", lit(1)), bad))),
             call1("C", ref(n_f)), call1("D", lit(2))>>),
  call3("I", bad, call1("D", lit(1)), call1("D", lit(2))),
  call3("I", word("T"), bad, call1("D", lit(2))),
  call3("I", word("F"), call1("D", lit(1)), bad),
  call3("G", bad, call1("D", lit(1)), call1("D", lit(2))),
  call3("G", call1("D", text(s_abc)), bad, call1("D", lit(2))),
  call3("G", call1("D", text(s_abc)), call1("D", lit(1)), bad),
  call4("S", bad, call1("D", lit(1)), call1("D", lit(1)), call1("D", text(s_ab))),
  call4("S", call1("D", text(s_abc)), bad, call1("D", lit(1)), call1("D", text(s_ab))),
  call4("S", call1("D", text(s_abc)), call1("D", lit(1)), bad, call1("D", text(s_ab))),
  call4("S", call1("D", text(s_abc)), call1("D", lit(1)), call1("D", lit(1)), bad)
  >>
  \o ForEach(UnaryFunctions, LAMBDA c : call1("D", call1(c, bad)))
  \o ForEach(BinaryFunctions, LAMBDA c : call2(c, bad, call1("D", lit(1))))
  \o ForEach(BinaryFunctions, LAMBDA c : call2(c, call1("D", lit(1)), bad))
  \o ForEach(BinaryFunctions, LAMBDA c : call2(c, call1("D", text(s_ab)), bad))
  \o ForEach(BinaryFunctions, LAMBDA c : call2(c, call1("D", word("@")), bad))
Failing == Concat(ForEach(Failures, FailIn))

\* ? a b, over values of every kind and lists produced by every operation.
Equals == <<
  word("@"),
  call2("+", word("@"), word("@")),
  call2("+", word("@"), word("N")),
  call2("+", word("@"), word("F")),
  call2("+", word("@"), text(<<>>)),
  call2("*", word("@"), lit(3)),
  call2("*", call1(",", lit(1)), lit(0)),
  call3("G", word("@"), lit(0), lit(0)),
  call3("G", call1(",", lit(1)), lit(1), lit(0)),
  call4("S", word("@"), lit(0), lit(0), word("@")),
  call4("S", call1(",", lit(1)), lit(0), lit(1), word("@")),
  call1("]", call1(",", lit(1))),
  call1(",", lit(1)),
  call2("+", word("@"), lit(1)),
  call2("+", word("@"), word("T")),
  call1(",", word("T")),
  call1(",", word("@")),
  call1(",", call2("+", word("@"), word("@"))),
  call2("+", word("@"), lit(12)),
  call2("+", call1(",", lit(1)), call1(",", lit(2))),
  lit(0), lit(1), text(<<>>), text(<<49>>), text(s_ab), call2("+", text(<<97>>), text(<<98>>)),
  word("T"), word("F"), word("N"), call1("B", word("T"))
>>
Equalities == ForEachPair(Equals, Equals, LAMBDA a, b : call1("D", call2("?", a, b)))

\* DUMP < a b and DUMP > a b, for Integers up to the ends of their range.
Extremes == <<lit(MaxInt), call1("~", lit(MaxInt)),
              call2("-", call1("~", lit(MaxInt)), lit(1)),
              lit(0), lit(2), call1("~", lit(2))>>
Comparisons ==
  ForEachPair(Extremes, Extremes, LAMBDA a, b : call1("D", call2("<", a, b)))
  \o ForEachPair(Extremes, Extremes, LAMBDA a, b : call1("D", call2(">", a, b)))


\* DUMP / a b and DUMP % a b, for divisors that are or coerce to 0, and for
\* dividends and divisors of both signs.
Dividends == <<lit(5), call1("~", lit(5)), lit(0),
               call2("-", call1("~", lit(MaxInt)), lit(1))>>
Divisors == <<word("N"), word("F"), text(<<>>), word("@"), lit(0),
              lit(2), call1("~", lit(2)), call1("~", lit(1))>>
Divisions ==
  ForEachPair(Dividends, Divisors, LAMBDA a, b : call1("D", call2("/", a, b)))
  \o ForEachPair(Dividends, Divisors, LAMBDA a, b : call1("D", call2("%", a, b)))
  \* ; DUMP % ~5 ~2 ; DUMP / ~5 2 DUMP / 5 NULL
  \o <<Sequence(<<call1("D", call2("%", call1("~", lit(5)), call1("~", lit(2)))),
                  call1("D", call2("/", call1("~", lit(5)), lit(2))),
                  call1("D", call2("/", lit(5), word("N")))>>)>>


\* ; DUMP + 1 2 ; DUMP + "ab" "a" ; DUMP + (, 1) (, 2) + a DUMP 1, for an a
\* of each kind that + does not take.
Additions ==
  ForEach(<<word("T"), word("N"), call1("B", word("T")), call1("B", ref(n_x))>>,
    LAMBDA a : Sequence(<<call1("D", call2("+", lit(1), lit(2))),
                          call1("D", call2("+", text(s_ab), text(<<97>>))),
                          call1("D", call2("+", call1(",", lit(1)), call1(",", lit(2)))),
                          call2("+", a, call1("D", lit(1)))>>))


\* DUMP GET c start length, for a start and a length whose sum does not fit
\* an int.
Overflows ==
  ForEachPair(<<text(s_abc), call2("+", call1(",", lit(1)), lit(23))>>,
              <<lit(1), lit(MaxInt)>>,
              LAMBDA c, d : call1("D", call3("G", c, lit(MaxInt), d)))
  \* DUMP GET "aé" 1 1, DUMP GET "aé" 1 2, DUMP GET "aé" 0 2
  \o <<call1("D", call3("G", text(<<97>> \o s_e_acute), lit(1), lit(1))),
        call1("D", call3("G", text(<<97>> \o s_e_acute), lit(1), lit(2))),
        call1("D", call3("G", text(<<97>> \o s_e_acute), lit(0), lit(2)))>>


\* DUMP ? (GET (SET s start amount r) start (LENGTH r)) r
RoundTrip(s, r, start, amount) ==
  call1("D", call2("?", call3("G", call4("S", s, start, amount, r), start, call1("L", r)), r))
RoundTripsOn(s, r) ==
  ForEachPair(<<lit(0), lit(1), lit(3)>>, <<lit(0), lit(1), lit(2)>>,
    LAMBDA start, amount : RoundTrip(s, r, start, amount))
RoundTrips ==
  Concat(ForEachPair(<<text(s_abc), text(<<97>>), text(<<>>)>>,
                     <<text(s_ab), text(<<>>), text(s_e_acute)>>, RoundTripsOn))
  \o Concat(ForEachPair(<<call2("+", call1(",", lit(1)), lit(23)), call1(",", lit(1)), word("@")>>,
                        <<call1(",", lit(7)), word("@")>>, RoundTripsOn))


\* The functions that coerce to String, on a value of each kind: OUTPUT v,
\* DUMP + "ab" v, DUMP SET "abc" 0 1 v, DUMP ^ (+ ,1 23) v.
Stringed == <<word("N"), word("T"), word("F"), call1("~", lit(12)), text(s_ab),
              call2("+", call1(",", word("N")), call1(",", word("T"))),
              call2("+", call1(",", call2("+", call1(",", lit(1)), call1(",", lit(2)))),
                         call1(",", text(s_ab)))>>
StringOn(v) == <<call1("O", v),
                 call1("D", call2("+", text(s_ab), v)),
                 call1("D", call4("S", text(s_abc), lit(0), lit(1), v)),
                 call1("D", call2("^", call2("+", call1(",", lit(1)), lit(23)), v))>>
Strings == Concat(ForEach(Stringed, StringOn))


\* DUMP + 0 s, which coerces the String s to an Integer:
\* "  -12abc3" "  -12 9" "-12" "xyz" "" " " "-" "+" "+5" "+-5" "- 5" "12" "\t\n7x"
\* "007" "-0" "1 2" and the decimal representation of an Integer too large.
Numerals == <<
  <<32, 32, 45, 49, 50, 97, 98, 99, 51>>, <<32, 32, 45, 49, 50, 32, 57>>, <<45, 49, 50>>,
  <<120, 121, 122>>, <<>>, <<32>>, <<45>>, <<43>>, <<43, 53>>, <<43, 45, 53>>, <<45, 32, 53>>,
  <<49, 50>>, <<9, 10, 55, 120>>, <<48, 48, 55>>, <<45, 48>>, <<49, 32, 50>>,
  FormatInt(MaxInt) \o <<48>>
>>
\* DUMP + 0 + "" n, which coerces the Integer n to a String and back.
NonNegatives == <<lit(0), lit(7), lit(12), lit(100), lit(MaxInt)>>
Decimal(n) == call1("D", call2("+", lit(0), call2("+", text(<<>>), n)))
Parses ==
  ForEach(Numerals, LAMBDA s : call1("D", call2("+", lit(0), text(s))))
  \o ForEach(NonNegatives, Decimal)


\* DUMP + @ n, which coerces the Integer n to a List.
Digited == <<lit(0), lit(7), call1("~", lit(7)), lit(10), call1("~", lit(100)),
             call1("~", lit(123)), lit(MaxInt), call1("~", lit(MaxInt)),
             call2("-", call1("~", lit(MaxInt)), lit(1))>>
Digits == ForEach(Digited, LAMBDA n : call1("D", call2("+", word("@"), n)))


\* The coercions of a Variable and of a Call that BLOCK returned, alone and
\* as the element of a List: ; = x 1 f (BLOCK x), ; = x 1 f (BLOCK DUMP x), ...
Blocks == <<call1("B", ref(n_x)), call1("B", call1("D", ref(n_x)))>>
Coercing(b) == <<
  call1("!", b), call1("O", b), call1("L", b), call1("~", b),
  call2("&", b, lit(1)), call2("|", b, lit(1)),
  call3("I", b, call1("D", lit(1)), call1("D", lit(2))),
  call2("W", b, call1("D", lit(1))),
  call2("+", lit(1), b), call2("+", text(s_ab), b), call2("+", word("@"), b),
  call2("<", word("T"), b), call2("*", text(s_ab), b),
  call3("G", text(s_abc), b, lit(1)), call3("G", text(s_abc), lit(1), b),
  call4("S", text(s_abc), lit(0), lit(1), b),
  call1("O", call1(",", b)),
  call2("+", text(s_ab), call2("+", call1(",", lit(1)), call1(",", b))),
  call2("^", call1(",", b), text(s_ab)),
  call4("S", text(s_abc), lit(0), lit(1), call1(",", b))
>>
Coercions ==
  ForEach(Concat(ForEach(Blocks, Coercing)),
    LAMBDA p : Sequence(<<call2("=", ref(n_x), lit(1)), p>>))


\* DUMP [ s, DUMP ] s, DUMP ? (+ ([ s) (] s)) s and DUMP - (LENGTH s) (LENGTH ] s)
\* for the Strings "abc", "a", "é", "éa", "aé" and ""; the same for Lists,
\* with the first element boxed: DUMP ? (+ (, [ s) (] s)) s.
HeadTailOn(s, first(_)) == <<
  call1("D", call1("[", s)),
  call1("D", call1("]", s)),
  call1("D", call2("?", call2("+", first(call1("[", s)), call1("]", s)), s)),
  call1("D", call2("-", call1("L", s), call1("L", call1("]", s))))
>>
HeadsAndTails ==
  Concat(ForEach(<<text(s_abc), text(<<97>>), text(s_e_acute), text(s_e_acute \o <<97>>),
                   text(<<97>> \o s_e_acute), text(<<>>)>>,
                 LAMBDA s : HeadTailOn(s, LAMBDA h : h)))
  \o Concat(ForEach(<<call2("+", call1(",", lit(1)), lit(23)), call1(",", lit(1)),
                      call1(",", word("@")), word("@")>>,
                    LAMBDA s : HeadTailOn(s, LAMBDA h : call1(",", h))))


\* ; = x 1 * a b, for a of every kind and b that writes, fails or has no
\* Integer coercion.
Multiplied == <<lit(7), text(s_ab), call1(",", lit(1)), word("T"), word("N"),
                call1("B", ref(n_x))>>
Multipliers == <<call1("D", lit(2)), call1("D", call1("~", lit(1))), call1("D", text(<<50>>)),
                 call1("B", ref(n_x)), ref(n_foo),
                 call2(";", call1("D", lit(2)), call1("B", ref(n_x)))>>
Multiplications ==
  ForEachPair(Multiplied, Multipliers,
    LAMBDA a, b : Sequence(<<call2("=", ref(n_x), lit(1)), call2("*", a, b)>>))


\* Programs that end in QUIT, and programs in which a block calls itself.
Recursions == <<
  \* QUIT 3
  call1("Q", lit(3)),
  \* ; DUMP 1 ; QUIT TRUE DUMP 2
  Sequence(<<call1("D", lit(1)), call1("Q", word("T")), call1("D", lit(2))>>),
  \* + 1 QUIT "2"
  call2("+", lit(1), call1("Q", text(<<50>>))),
  \* QUIT BLOCK 1
  call1("Q", call1("B", lit(1))),
  \* ; = f BLOCK CALL f CALL f
  Sequence(<<call2("=", ref(n_f), call1("B", call1("C", ref(n_f)))), call1("C", ref(n_f))>>),
  \* ; = f BLOCK ; DUMP 1 CALL f CALL f
  Sequence(<<call2("=", ref(n_f), call1("B", call2(";", call1("D", lit(1)), call1("C", ref(n_f))))),
             call1("C", ref(n_f))>>),
  \* ; = f BLOCK DUMP 1 ; CALL f CALL f
  Sequence(<<call2("=", ref(n_f), call1("B", call1("D", lit(1)))),
             call1("C", ref(n_f)), call1("C", ref(n_f))>>)
>>

Programs ==
  Scenarios \o Loops \o Binaries \o Unaries \o Ranges \o Ordered \o Variables
  \o Failing \o Equalities \o Comparisons \o Divisions \o Additions \o Overflows \o RoundTrips \o Strings \o Parses \o Digits \o Coercions \o HeadsAndTails \o Multiplications \o Recursions

(***************************************************************************)
(* Play and PlayWithEnvironment, called one after the other by a caller     *)
(* that holds one Environment.  A call parses its source with the          *)
(* variables of its environment and runs it as Evaluate does.              *)
(*   playing.calls  the number of calls made, the one in progress included *)
(*   playing.api    the function called last                               *)
(*   playing.env    the caller's Environment, when the call in progress    *)
(*                  is not using it                                        *)
(*   playing.log    history: the calls that have returned                  *)
(***************************************************************************)
\* Environment.variables shared by all the calls, as one global map would be.
NewEnvironment_global == [variablesMap |-> variablesMap, cells |-> cells]

\* NewEnvironment: no variable yet.
NewEnvironment == [variablesMap |-> <<>>, cells |-> <<>>]

\* The Environment the caller holds, which the calls of PlayWithEnvironment
\* are given.
CallerEnvironment ==
  IF playing.api = "PlayWithEnvironment"
  THEN [variablesMap |-> variablesMap, cells |-> cells]
  ELSE playing.env

\* = x 1, x and = x 2
PlayPrograms == <<call2("=", ref(n_x), lit(1)), ref(n_x), call2("=", ref(n_x), lit(2))>>

\* The previous call has returned and PlayWithEnvironment(program, env) is called.
StartPlay(api, program, env) ==
  /\ ctl.mode = "done"
  /\ playing.calls < MaxPlays
  /\ source' = program
  /\ variablesMap' = env.variablesMap
  /\ cells' = env.cells
  /\ ctl' = Ctl("start", Nil, NoErr)
  /\ stack' = <<>>
  /\ trace' = <<>>
  /\ result' = Ok(Nil)
  /\ playing' = [calls |-> playing.calls + 1, api |-> api, env |-> CallerEnvironment,
                 log |-> Append(playing.log,
                                [api |-> playing.api, source |-> source, result |-> result])]
  /\ UNCHANGED <<goarch, stdout, asciiCall, parsing, slices>>

\* Play(program)
Play ==
  /\ playing.calls > 0
  /\ \E k \in 1..Len(PlayPrograms) : StartPlay("Play", PlayPrograms[k], NewEnvironment)

\* PlayWithEnvironment(program, env), env being the caller's Environment
PlayWithEnvironment ==
  /\ playing.calls > 0
  /\ \E k \in 1..Len(PlayPrograms) :
       StartPlay("PlayWithEnvironment", PlayPrograms[k], CallerEnvironment)

PlayInit ==
  /\ \E k \in 1..Len(PlayPrograms) : source = PlayPrograms[k]
  /\ goarch = "amd64"
  /\ variablesMap = <<>>
  /\ cells = <<>>
  /\ stack = <<>>
  /\ ctl = Ctl("start", Nil, NoErr)
  /\ stdout = <<>>
  /\ trace = <<>>
  /\ result = Ok(Nil)
  /\ \E api \in {"Play", "PlayWithEnvironment"} : playing = [NoPlay EXCEPT !.calls = 1, !.api = api]
  /\ asciiCall = NoCall
  /\ parsing = NoParse
  /\ slices = NoSlices

PlayNext ==
  \/ Play
  \/ PlayWithEnvironment
  \/ Evaluate
  \/ EvaluateReturn
  \/ IntegerExecute
  \/ VariableExecute
  \/ AstExecute
  \/ Handle_assign

PlaySpec == PlayInit /\ [][PlayNext]_vars

(***************************************************************************)
(* The Lists as Go holds them.  A List is a slice: a view (array, off,     *)
(* len, cap) of len elements from offset off of a backing array, with room *)
(* for cap; array 0 is the nil slice.  slices.arrays are the backing       *)
(* arrays allocated so far, slices.lists the Lists obtained so far (the    *)
(* values a program may hold in variables, in other Lists or in its Ast),  *)
(* slices.ops the number of operations made and slices.last the function   *)
(* of the last one.  The elements are Integers.                            *)
(***************************************************************************)
NilSlice == [array |-> 0, off |-> 0, len |-> 0, cap |-> 0]

\* The elements of the slice s.
SliceContents(arrays, s) == [i \in 1..s.len |-> arrays[s.array][s.off + i]]

\* s[lo:hi]: the same array, seen from lo.
Reslice(s, lo, hi) ==
  IF s.array = 0 THEN NilSlice
  ELSE [array |-> s.array, off |-> s.off + lo, len |-> hi - lo, cap |-> s.cap - lo]

\* A slice of a new array that holds elements.
NewSlice(arrays, elements) ==
  [arrays |-> Append(arrays, elements),
   slice |-> [array |-> Len(arrays) + 1, off |-> 0, len |-> Len(elements),
              cap |-> Len(elements)]]

\* append(s, elements...): in the array of s when it has room after s, in a
\* new array otherwise.
SliceAppend(arrays, s, elements) ==
  IF elements = <<>> THEN [arrays |-> arrays, slice |-> s]
  ELSE IF s.len + Len(elements) <= s.cap
  THEN [arrays |-> [arrays EXCEPT ![s.array] =
                      [i \in 1..Len(@) |->
                         IF s.off + s.len < i /\ i <= s.off + s.len + Len(elements)
                         THEN elements[i - s.off - s.len] ELSE @[i]]],
        slice |-> [s EXCEPT !.len = s.len + Len(elements)]]
  ELSE NewSlice(arrays, SliceContents(arrays, s) \o elements)

\* The elements of the slices ss, one slice after the other.
RECURSIVE AllContents(_, _)
AllContents(arrays, ss) ==
  IF ss = <<>> THEN <<>>
  ELSE SliceContents(arrays, Head(ss)) \o AllContents(arrays, Tail(ss))

\* slices.Concat made of one append onto its first slice.
SliceConcat_append(arrays, ss) ==
  SliceAppend(arrays, Head(ss), AllContents(arrays, Tail(ss)))

\* slices.Concat(ss...): Grow(nil, size), then the appends, which have room:
\* a new array, or nil for no element.
SliceConcat(arrays, ss) ==
  IF AllContents(arrays, ss) = <<>> THEN [arrays |-> arrays, slice |-> NilSlice]
  ELSE NewSlice(arrays, AllContents(arrays, ss))

\* slices.Repeat(s, count): a new array.
SliceRepeat(arrays, s, count) ==
  NewSlice(arrays, Repeat(SliceContents(arrays, s), count))

\* The function c has returned the List made.
Obtained(c, made) ==
  /\ slices.ops < MaxOps
  /\ slices' = [arrays |-> made.arrays, lists |-> Append(slices.lists, made.slice),
                ops |-> slices.ops + 1, last |-> c]
  /\ UNCHANGED <<run, asciiCall, parsing, playing>>

\* + a b, for Lists a and b
ListAdd ==
  \E a, b \in 1..Len(slices.lists) :
    Obtained("+", SliceConcat(slices.arrays, <<slices.lists[a], slices.lists[b]>>))

\* * a count
ListMultiply ==
  \E a \in 1..Len(slices.lists), count \in 0..2 :
    Obtained("*", SliceRepeat(slices.arrays, slices.lists[a], count))

\* GET a start length, in range
ListGet ==
  \E a \in 1..Len(slices.lists) :
    \E start \in 0..slices.lists[a].len :
      \E amount \in 0..(slices.lists[a].len - start) :
        Obtained("G", [arrays |-> slices.arrays,
                  slice |-> Reslice(slices.lists[a], start, start + amount)])

\* ] a, for a List a that is not empty
ListTail ==
  \E a \in 1..Len(slices.lists) :
    /\ slices.lists[a].len > 0
    /\ Obtained("]", [arrays |-> slices.arrays,
                 slice |-> Reslice(slices.lists[a], 1, slices.lists[a].len)])

\* SET a start length b, in range
ListSet ==
  \E a, b \in 1..Len(slices.lists) :
    \E start \in 0..slices.lists[a].len :
      \E amount \in 0..(slices.lists[a].len - start) :
        LET collection == slices.lists[a]
        IN Obtained("S", SliceConcat(slices.arrays,
                                <<Reslice(collection, 0, start), slices.lists[b],
                                  Reslice(collection, start + amount, collection.len)>>))

\* The Lists a program starts with: 1 2 3, or 1 2 and 3.
SliceInit ==
  /\ NoRun
  /\ asciiCall = NoCall
  /\ parsing = NoParse
  /\ playing = NoPlay
  /\ \/ slices = [arrays |-> <<<<1, 2, 3>>>>,
                  lists |-> <<[array |-> 1, off |-> 0, len |-> 3, cap |-> 3]>>, ops |-> 0,
                  last |-> ""]
     \/ slices = [arrays |-> <<<<1, 2>>, <<3>>>>,
                  lists |-> <<[array |-> 1, off |-> 0, len |-> 2, cap |-> 2],
                              [array |-> 2, off |-> 0, len |-> 1, cap |-> 1]>>, ops |-> 0,
                  last |-> ""]

SliceNext ==
  \/ ListAdd
  \/ ListMultiply
  \/ ListGet
  \/ ListTail
  \/ ListSet

SliceSpec == SliceInit /\ [][SliceNext]_vars

(***************************************************************************)
(* The specification.                                                      *)
(***************************************************************************)
Init ==
  /\ \E i \in 1..Len(Programs) : source = Programs[i]
  \* only the conversion in exponentiate depends on the architecture
  /\ goarch \in IF \E i \in 1..Len(source) : source[i].c = "^"
                THEN {"amd64", "arm64"} ELSE {"amd64"}
  /\ variablesMap = <<>>
  /\ cells = <<>>
  /\ stack = <<>>
  /\ ctl = Ctl("start", Nil, NoErr)
  /\ stdout = <<>>
  /\ trace = <<>>
  /\ result = Ok(Nil)
  /\ asciiCall = NoCall
  /\ parsing = NoParse
  /\ playing = NoPlay
  /\ slices = NoSlices

Next ==
  \/ Evaluate
  \/ EvaluateReturn
  \/ NullExecute
  \/ BooleanExecute
  \/ IntegerExecute
  \/ StringExecute
  \/ ListExecute
  \/ VariableExecute
  \/ AstExecute
  \/ StackOverflow
  \/ Handle_true
  \/ Handle_false
  \/ Handle_null
  \/ Handle_emptyList
  \/ Handle_noop
  \/ Handle_box
  \/ Handle_head
  \/ Handle_tail
  \/ Handle_block
  \/ Handle_call
  \/ Handle_quit
  \/ Handle_not
  \/ Handle_negate
  \/ Handle_length
  \/ Handle_dump
  \/ Handle_output
  \/ Handle_add
  \/ Handle_subtract
  \/ Handle_multiply
  \/ Handle_divide
  \/ Handle_remainder
  \/ Handle_exponentiate
  \/ Handle_lessThan
  \/ Handle_greaterThan
  \/ Handle_equalTo
  \/ Handle_and
  \/ Handle_or
  \/ Handle_then
  \/ Handle_assign
  \/ Handle_while
  \/ Handle_if
  \/ Handle_get
  \/ Handle_set

Spec == Init /\ [][Next]_vars

(***************************************************************************)
(* Properties.  trace holds the completed activations, stack the ones in   *)
(* progress; hist of an activation is the Execute calls it made, in order. *)
(***************************************************************************)
Truthy(v) == Value_ToBool(v) = Ok(Boolean(TRUE))
Falsy(v) == Value_ToBool(v) = Ok(Boolean(FALSE))

\* The activation of function c in trace that completed first / last.
Completed(c) == {i \in 1..Len(trace) : trace[i].f = c}

\* The calls of hist are the arguments 0, 1, 2, ... in this order; each call
\* has returned before the next is made, and the next starts in the state
\* the previous one returned in.
InIndexOrder(hist) ==
  \A j \in 1..Len(hist) :
    /\ hist[j].idx = j - 1
    /\ j < Len(hist) => hist[j].done /\ hist[j + 1].pre = hist[j].post

OrderedFunctions == {"+", "-", "*", "/", "%", "^", "<", ">", "?", ";", "G", "S"}

\* The indices of the arguments executed by hist increase.
Increasing(hist) ==
  \A j \in 1..Len(hist) :
    j < Len(hist) => hist[j].done /\ hist[j].idx < hist[j + 1].idx

\* C1: every activation of + - * / % ^ < > ? ; GET SET executes its
\* arguments in increasing index order, argument i returning, with all its
\* effects on the variables and stdout made, before argument i+1 is started.
\* The other functions that execute more than one argument once each (& | IF)
\* execute them by increasing index too.
C1_ArgumentsLeftToRight ==
  /\ \A i \in 1..Len(trace) :
       /\ trace[i].f \in OrderedFunctions => InIndexOrder(trace[i].hist)
       /\ trace[i].f \in {"&", "|", "I"} => Increasing(trace[i].hist)
  /\ \A i \in 1..Len(stack) :
       /\ stack[i].f \in OrderedFunctions => InIndexOrder(stack[i].hist)
       /\ stack[i].f \in {"&", "|", "I"} => Increasing(stack[i].hist)

\* The run is over, and each of the functions above has completed an
\* activation that executed all its arguments, every one writing to stdout.
C1_Witness ==
  /\ ctl.mode = "done"
  /\ \A c \in OrderedFunctions :
       \E i \in Completed(c) :
         /\ Len(trace[i].hist) = KnownFunctions(c).arity
         /\ \A j \in 1..Len(trace[i].hist) :
              trace[i].hist[j].post.stdout # trace[i].hist[j].pre.stdout

\* The calls an activation of & or | may have made, given the value a of its
\* first argument: none more when the shortcut applies, b otherwise.
ShortCircuit(c, hist) ==
  /\ hist[1].idx = 0
  /\ \A j \in 2..Len(hist) : hist[j].idx = 1
  /\ Len(hist) <= 2
  /\ Len(hist) = 2 =>
       /\ hist[1].err = NoErr
       /\ IF c = "&" THEN Truthy(hist[1].val) ELSE Falsy(hist[1].val)

\* C2: & a b executes a exactly once; if a coerces to false it returns a's
\* value with b never executed and nothing changed since a returned; if a
\* coerces to true it executes b exactly once and returns b's result.  | a b
\* is the same with true and false exchanged.
C2_ShortCircuit ==
  /\ \A i \in 1..Len(stack) :
       (stack[i].f \in {"&", "|"} /\ stack[i].hist # <<>>) =>
         ShortCircuit(stack[i].f, stack[i].hist)
  /\ \A i \in 1..Len(trace) :
       LET t == trace[i]
           a == t.hist[1]
           skips == IF t.f = "&" THEN Falsy(a.val) ELSE Truthy(a.val)
           goesOn == IF t.f = "&" THEN Truthy(a.val) ELSE Falsy(a.val)
       IN t.f \in {"&", "|"} =>
            /\ t.hist # <<>>
            /\ ShortCircuit(t.f, t.hist)
            /\ a.err = NoErr =>
                 /\ skips => /\ Len(t.hist) = 1
                             /\ t.val = a.val /\ t.err = NoErr
                             /\ t.post = a.post
                 /\ goesOn => /\ Len(t.hist) = 2
                              /\ t.val = t.hist[2].val /\ t.err = t.hist[2].err

\* The run is over; & and | each completed one activation that took the
\* shortcut, its b being a DUMP, and one that executed b.
C2_Witness ==
  /\ ctl.mode = "done"
  /\ \A c \in {"&", "|"} :
       /\ \E i \in Completed(c) :
            Len(trace[i].hist) = 1 /\ trace[i].e[2].f = "D" /\ trace[i].err = NoErr
       /\ \E i \in Completed(c) :
            /\ Len(trace[i].hist) = 2
            /\ trace[i].hist[2].post.stdout # trace[i].hist[2].pre.stdout

\* The numbers of executions of the condition, of those that coerced to
\* true, and of executions of the body, in the calls hist of a WHILE.
Tests(hist) == Cardinality({j \in 1..Len(hist) : hist[j].idx = 0})
TrueTests(hist) ==
  Cardinality({j \in 1..Len(hist) :
                 hist[j].idx = 0 /\ hist[j].done /\ hist[j].err = NoErr
                 /\ Truthy(hist[j].val)})
Bodies(hist) == Cardinality({j \in 1..Len(hist) : hist[j].idx = 1})

\* The calls of a WHILE alternate: the condition first, the body only after
\* a condition that coerced to true, the condition again after the body.
Alternates(hist) ==
  \A j \in 1..Len(hist) :
    IF j % 2 = 1
    THEN /\ hist[j].idx = 0
         /\ j > 1 => hist[j - 1].done /\ hist[j - 1].err = NoErr
    ELSE /\ hist[j].idx = 1
         /\ hist[j - 1].done /\ hist[j - 1].err = NoErr /\ Truthy(hist[j - 1].val)

\* C3: WHILE c b evaluates c, executes b once after each c that coerced to
\* true and evaluates c again; it returns Null at the first c that coerces
\* to false.  Without error, b is executed as often as c was true, c once
\* more than b, and b never when the first c is false.
C3_WhileCounts ==
  /\ \A i \in 1..Len(stack) : stack[i].f = "W" => Alternates(stack[i].hist)
  /\ \A i \in 1..Len(trace) :
       LET t == trace[i]
       IN t.f = "W" =>
            /\ Alternates(t.hist)
            /\ t.err = NoErr =>
                 /\ t.val = Null
                 /\ Falsy(t.hist[Len(t.hist)].val)
                 /\ Bodies(t.hist) = TrueTests(t.hist)
                 /\ Tests(t.hist) = Bodies(t.hist) + 1
                 /\ Falsy(t.hist[1].val) => Bodies(t.hist) = 0

\* The run is over; one WHILE completed without executing its body, a DUMP,
\* and one after executing its body twice.
C3_Witness ==
  /\ ctl.mode = "done"
  /\ \E i \in Completed("W") :
       trace[i].err = NoErr /\ Bodies(trace[i].hist) = 0 /\ trace[i].e[2].f = "D"
  /\ \E i \in Completed("W") :
       trace[i].err = NoErr /\ Bodies(trace[i].hist) = 2

\* C4: BLOCK x returns x itself, executing nothing and changing nothing;
\* CALL executes the value its argument returned, starting in the state of
\* that moment, and returns the result.  After = f BLOCK * n 2 and = n 5,
\* CALL f yields 10, and after = n 21 it yields 42.
C4_BlockAndCall ==
  /\ \A i \in 1..Len(trace) :
       LET t == trace[i]
       IN /\ t.f = "B" =>
               /\ t.hist = <<>>
               /\ t.val = t.e[1] /\ t.err = NoErr
               /\ t.post = t.pre
          /\ (t.f = "C" /\ t.hist[1].err = NoErr) =>
               /\ Len(t.hist) = 2
               /\ t.hist[2].node = t.hist[1].val
               /\ t.hist[2].pre = t.hist[1].post
               /\ t.val = t.hist[2].val /\ t.err = t.hist[2].err
               /\ t.post = t.hist[2].post
  /\ (source = Scenarios[2] /\ ctl.mode = "done") =>
       /\ result = Ok(Null)
       /\ stdout = <<49, 48, 10, 52, 50, 10>>
       /\ \E i, j \in Completed("C") :
            /\ i < j
            /\ trace[i].val = Integer(10) /\ trace[j].val = Integer(42)
            /\ Len(trace[i].hist) = 2 /\ Len(trace[j].hist) = 2
            /\ trace[i].hist[2].node = trace[j].hist[2].node

\* The run of the program above is over: the same block was called twice,
\* with different results.
C4_Witness ==
  /\ ctl.mode = "done"
  /\ \E b \in Completed("B") :
       \E i, j \in Completed("C") :
         /\ b < i /\ i < j
         /\ Len(trace[i].hist) = 2 /\ Len(trace[j].hist) = 2
         /\ trace[i].hist[2].node = trace[b].val
         /\ trace[j].hist[2].node = trace[b].val
         /\ trace[i].err = NoErr /\ trace[j].err = NoErr
         /\ trace[i].val # trace[j].val

\* The value stored by the last successful = on a variable of that name among
\* the first i completed activations; Nil if there is none.
RECURSIVE LastAssigned(_, _)
LastAssigned(name, i) ==
  IF i = 0 THEN Nil
  ELSE IF trace[i].f = "=" /\ trace[i].err = NoErr /\ cells[trace[i].e[1].n].name = name
  THEN trace[i].val
  ELSE LastAssigned(name, i - 1)

OneCellPerName ==
  \A p, q \in 1..Len(cells) : cells[p].name = cells[q].name => p = q

ReadsLastAssigned ==
  (ctl.mode = "exec" /\ ctl.val.k = "Variable"
   /\ LastAssigned(cells[ctl.val.n].name, Len(trace)) # Nil)
  => ctl' = Ctl("ret", LastAssigned(cells[ctl.val.n].name, Len(trace)), NoErr)

\* C5: there is one cell for each name, and once = v e has succeeded through
\* any occurrence of v, executing any occurrence of v (also one inside a
\* BLOCK stored before) returns the value of the last such assignment.
C5_SameNameSameCell == []OneCellPerName /\ [][ReadsLastAssigned]_vars

\* The run is over; a block reading x, stored before x was first assigned,
\* was called after each of two assignments to x and returned each value.
C5_Witness ==
  /\ ctl.mode = "done"
  /\ \E b \in Completed("B") :
       \E v, w \in Completed("=") :
         \E i, j \in Completed("C") :
           /\ b < v /\ v < i /\ i < w /\ w < j
           /\ trace[b].val.k = "Variable"
           /\ trace[v].e[1] = trace[b].val /\ trace[w].e[1] = trace[b].val
           /\ Len(trace[i].hist) = 2 /\ Len(trace[j].hist) = 2
           /\ trace[i].hist[2].node = trace[b].val
           /\ trace[j].hist[2].node = trace[b].val
           /\ trace[i].val = trace[v].val /\ trace[j].val = trace[w].val
           /\ trace[v].val # trace[w].val

\* C6: once an assignment to a variable has succeeded the variable is set in
\* every later state (its value is never the nil that marks an unset cell,
\* so executing it returns no error), and Variable.Assign never panics.
C6_SetStaysSet ==
  /\ \A i \in Completed("=") :
       trace[i].err = NoErr =>
         /\ cells[trace[i].e[1].n].value # Nil
         /\ IsOk(Variable_Execute(trace[i].e[1], cells))
  /\ ~(ctl.mode = "panic" /\ stack # <<>> /\ Top.f = "=")

\* The run is over; a variable was assigned, assigned again, and read.
C6_Witness ==
  /\ ctl.mode = "done"
  /\ \E i, j \in Completed("=") :
       /\ i < j
       /\ trace[i].e[1] = trace[j].e[1]
       /\ trace[i].err = NoErr /\ trace[j].err = NoErr
       /\ \E d \in Completed("D") :
            j < d /\ trace[d].hist[1].node = trace[i].e[1] /\ trace[d].err = NoErr

\* The value stored by the last successful = on the cell ptr among the first
\* i completed activations; Nil if there is none.
RECURSIVE LastStored(_, _)
LastStored(ptr, i) ==
  IF i = 0 THEN Nil
  ELSE IF trace[i].f = "=" /\ trace[i].err = NoErr /\ trace[i].e[1].n = ptr
  THEN trace[i].val
  ELSE LastStored(ptr, i - 1)

ExecutesVariable ==
  (ctl.mode = "exec" /\ ctl.val.k = "Variable") =>
    LET last == LastStored(ctl.val.n, Len(trace))
    IN /\ UNCHANGED <<cells, stack, stdout, trace>>
       /\ IF last = Nil
          THEN /\ ctl' = Ctl("ret", Nil, ErrB("undefined variable %q encountered",
                                               cells[ctl.val.n].name))
               /\ cells[ctl.val.n].value = Nil
          ELSE ctl' = Ctl("ret", last, NoErr)

UndefinedFoo ==
  (source = Scenarios[9] /\ ctl.mode = "done") =>
    /\ result = Fail(ErrWrap("runtime error: %v",
                             ErrB("undefined variable %q encountered", n_foo)))
    /\ stdout = <<>>

\* C7: executing a variable never assigned returns the error "undefined
\* variable" naming it and leaves the cell unset (OUTPUT foo ends in that
\* error); executing a set variable returns the value assigned last, as it
\* is: nothing is executed, written or stored.
C7_VariableExecute == []UndefinedFoo /\ [][ExecutesVariable]_vars

\* The run is over: a set variable was read and dumped, then an unset one
\* was executed, and the run ended in the error naming it.
C7_Witness ==
  /\ ctl.mode = "done"
  /\ result.err = ErrWrap("runtime error: %v",
                          ErrB("undefined variable %q encountered", n_foo))
  /\ stdout # <<>>
  /\ \E p \in 1..Len(cells) : cells[p].name = n_foo /\ cells[p].value = Nil
  /\ \E p \in 1..Len(cells) : cells[p].value # Nil

\* C8: = v e, v a Variable node, executes e and nothing else (never v);
\* if e returned a value it stores that value in v's cell, changes nothing
\* else, and returns the same value.  If the first argument is not a
\* Variable node, = returns an error; = 12 34 ends in one.
C8_Assign ==
  /\ \A i \in Completed("=") :
       LET t == trace[i]
           e == t.hist[1]
       IN IF t.e[1].k = "Variable"
          THEN /\ Len(t.hist) = 1
               /\ e.idx = 1 /\ e.node = t.e[2]
               /\ e.err = NoErr =>
                    /\ t.val = e.val /\ t.err = NoErr
                    /\ t.post.cells = [e.post.cells EXCEPT ![t.e[1].n].value = e.val]
                    /\ t.post.stdout = e.post.stdout
          ELSE t.err # NoErr /\ t.val = Nil
  /\ (ctl.mode = "done" /\ source = call2("=", lit(12), lit(34))) =>
       result.err # NoErr /\ result.val = Nil

\* The run of DUMP = x DUMP 3 is over: 3 was written twice, by e and by the
\* DUMP of the value = returned, and x holds 3.
C8_Witness ==
  /\ ctl.mode = "done"
  /\ source = call1("D", call2("=", ref(n_x), call1("D", lit(3))))
  /\ stdout = <<51, 51>>
  /\ \E i \in Completed("=") : trace[i].val = Integer(3) /\ cells[trace[i].e[1].n].value = Integer(3)

\* C9: when the execution of an argument (or of a called block) returns an
\* error, the activation executes nothing more and returns that error, with
\* the variables and stdout as they were when the error came back; every
\* enclosing activation does the same, and Evaluate returns the error,
\* wrapped as a runtime error, with no value.
C9_ErrorsPropagate ==
  /\ \A i \in 1..Len(trace) :
       LET t == trace[i]
       IN /\ \A j \in 1..Len(t.hist) :
               t.hist[j].err # NoErr =>
                 /\ j = Len(t.hist)
                 /\ t.err = t.hist[j].err /\ t.val = Nil
                 /\ t.post = t.hist[j].post
          /\ (t.err # NoErr /\ ctl.mode = "done") =>
               result = Fail(ErrWrap("runtime error: %v", t.err))
  /\ \A i \in 1..Len(stack) :
       \A j \in 1..Len(stack[i].hist) :
         (stack[i].hist[j].done /\ stack[i].hist[j].err # NoErr) => j = Len(stack[i].hist)

\* The run is over; a WHILE whose body had written to stdout and then failed
\* in an assignment has returned the error, and so has Evaluate: the
\* variable keeps its value and nothing was written after the failure.
C9_Witness ==
  /\ ctl.mode = "done"
  /\ result.err # NoErr
  /\ \E w \in Completed("W") :
       \E a \in Completed("=") :
         /\ a < w
         /\ trace[a].err # NoErr /\ trace[w].err = trace[a].err
         /\ trace[w].post.stdout # trace[w].pre.stdout
         /\ stdout = trace[a].post.stdout
         /\ cells[trace[a].e[1].n].value # Nil

\* Equality of two values by kind and components, whatever produced them.
RECURSIVE StructurallyEqual(_, _)
StructurallyEqual(x, y) ==
  /\ x.k = y.k
  /\ CASE x.k \in {"Integer", "Boolean"} -> x.n = y.n
       [] x.k = "String" -> x.b = y.b
       [] x.k = "List" ->
            /\ Len(x.e) = Len(y.e)
            /\ \A i \in 1..Len(x.e) : StructurallyEqual(x.e[i], y.e[i])
       [] x.k = "Null" -> TRUE
       [] OTHER -> x = y

\* C10: ? a b executes both arguments and returns true iff the two values
\* are of the same kind and componentwise equal (Lists: same length and
\* pairwise equal elements), whatever operations produced them.
C10_StructuralEquality ==
  \A i \in Completed("?") :
    LET t == trace[i]
    IN (Len(t.hist) = 2 /\ t.hist[2].err = NoErr) =>
         /\ t.err = NoErr
         /\ t.val = Boolean(StructurallyEqual(t.hist[1].val, t.hist[2].val))

\* C11: when a executes to an Integer, < a b returns true iff a is less than
\* the Integer coercion of b, and > a b iff a is greater, for all Integers,
\* those near the minimum and the maximum included.
C11_IntegerComparison ==
  \A i \in Completed("<") \cup Completed(">") :
    LET t == trace[i]
        a == t.hist[1].val
        b == Value_ToInt(t.hist[2].val)
    IN (Len(t.hist) = 2 /\ t.hist[2].err = NoErr /\ a.k = "Integer" /\ IsOk(b)) =>
         /\ t.err = NoErr
         /\ t.val = Boolean(IF t.f = "<" THEN a.n < b.val.n ELSE a.n > b.val.n)

\* The quotient of a by b # 0 truncated toward zero: the remainder it leaves
\* is smaller than b in magnitude and is 0 or has the sign of a.
TruncatedQuotient(a, b) ==
  CHOOSE q \in (MinInt - 1)..(MaxInt + 1) :
    LET rest == a - q * b
    IN Abs(rest) < Abs(b) /\ (rest = 0 \/ (rest < 0) = (a < 0))

\* The activations of / and %, with an Integer a and a b that has an Integer
\* coercion.
Divided ==
  {i \in Completed("/") \cup Completed("%") :
     /\ Len(trace[i].hist) = 2
     /\ trace[i].hist[2].err = NoErr
     /\ trace[i].hist[1].val.k = "Integer"
     /\ IsOk(Value_ToInt(trace[i].hist[2].val))}

Dividend(i) == trace[i].hist[1].val.n
Divisor(i) == Value_ToInt(trace[i].hist[2].val).val.n

\* / a b and % a b with an Integer a return an error and no value when the
\* Integer coercion of b is 0, and never panic.
ZeroDivisor ==
  /\ \A i \in Divided :
       Divisor(i) = 0 => trace[i].val = Nil /\ trace[i].err.msg = "zero divisor given to '" \o trace[i].f \o "'"
  /\ (ctl.mode = "panic" /\ stack # <<>>) => Top.f \notin {"/", "%"}

\* C12: / a b and % a b with an Integer a return a divide-by-zero error and no
\* value whenever the Integer coercion of b is 0, without a panic; for b # 0
\* they return the quotient truncated toward zero and the matching remainder,
\* except that the quotient of the minimum Integer by -1, which no Integer
\* holds, wraps around to the minimum Integer.
C12_Division ==
  /\ ZeroDivisor
  /\ \A i \in Divided :
       LET a == Dividend(i)
           b == Divisor(i)
           q == TruncatedQuotient(a, b)
       IN b # 0 =>
            /\ trace[i].err = NoErr
            /\ trace[i].f = "/" => trace[i].val = Integer(IF q > MaxInt THEN MinInt ELSE q)
            /\ trace[i].f = "%" => trace[i].val = Integer(a - q * b)

\* C12, as stated without the exception: for b # 0 the value of / a b is the
\* quotient truncated toward zero, for every a.
C12_QuotientForEveryDividend ==
  /\ ZeroDivisor
  /\ \A i \in Divided :
       LET a == Dividend(i)
           b == Divisor(i)
           q == TruncatedQuotient(a, b)
       IN b # 0 =>
            /\ trace[i].err = NoErr
            /\ trace[i].f = "/" => trace[i].val = Integer(q)
            /\ trace[i].f = "%" => trace[i].val = Integer(a - q * b)

\* The run of ; DUMP % ~5 ~2 ; DUMP / ~5 2 DUMP / 5 NULL is over: it has
\* written -1 and -2, and the division by NULL has returned the error.
C12_Witness ==
  /\ ctl.mode = "done"
  /\ stdout = <<45, 49, 45, 50>>
  /\ result.err # NoErr
  /\ \E i \in Divided : trace[i].f = "%" /\ trace[i].val = Integer(-1)
  /\ \E i \in Divided : trace[i].f = "/" /\ trace[i].val = Integer(-2)
  /\ \E i \in Divided : Divisor(i) = 0 /\ trace[i].val = Nil /\ trace[i].err # NoErr

\* C13: + a b dispatches on the kind a executes to: to an Integer it adds the
\* Integer coercion of b (wrapping around), to a String it appends the String
\* coercion of b, to a List the List coercion of b; it returns no error and a
\* value of the kind of a when a and b are both Integers, both Strings or
\* both Lists; for an a of any other kind it returns an invalid-type error
\* without executing b.
C13_Add ==
  \A i \in Completed("+") :
    LET t == trace[i]
        a == t.hist[1].val
    IN (Len(t.hist) >= 1 /\ t.hist[1].err = NoErr) =>
         IF a.k \notin {"Integer", "String", "List"}
         THEN /\ Len(t.hist) = 1
              /\ t.val = Nil
              /\ t.err = ErrT("invalid type given to '+': %T", TypeName(a))
              /\ t.post = t.hist[1].post
         ELSE /\ Len(t.hist) = 2
              /\ t.hist[2].idx = 1
              /\ t.hist[2].err = NoErr =>
                   LET b == t.hist[2].val
                   IN /\ (a.k = "Integer" /\ IsOk(Value_ToInt(b))) =>
                           t.val = Integer(Wrap(a.n + Value_ToInt(b).val.n))
                      /\ (a.k = "String" /\ IsOk(Value_ToString(b))) =>
                           t.val = String(a.b \o Value_ToString(b).val.b)
                      /\ (a.k = "List" /\ IsOk(Value_ToSlice(b))) =>
                           t.val.k = "List" /\ t.val.e = a.e \o Value_ToSlice(b).val.e
                      /\ b.k = a.k => t.err = NoErr /\ t.val.k = a.k

\* The run of ; DUMP + 1 2 ; DUMP + "ab" "a" ; DUMP + (, 1) (, 2) + TRUE DUMP 1
\* is over: the three sums were written, and + TRUE returned the error with
\* nothing more written.
C13_Witness ==
  /\ ctl.mode = "done"
  /\ result.err # NoErr
  /\ stdout = <<51>> \o <<34, 97, 98, 97, 34>> \o <<91, 49, 44, 32, 50, 93>>
  /\ \E i \in Completed("+") : trace[i].val = Integer(3)
  /\ \E i \in Completed("+") : trace[i].val = String(<<97, 98, 97>>)
  /\ \E i \in Completed("+") : trace[i].val = List(<<Integer(1), Integer(2)>>)
  /\ \E i \in Completed("+") :
       /\ Len(trace[i].hist) = 1 /\ trace[i].hist[1].val = Boolean(TRUE)
       /\ trace[i].err.msg = "invalid type given to '+': %T"

\* The activations of GET on a String or a List, with a start and a length
\* that have Integer coercions.
Gotten ==
  {i \in Completed("G") :
     /\ Len(trace[i].hist) = 3
     /\ trace[i].hist[3].err = NoErr
     /\ trace[i].hist[1].val.k \in {"String", "List"}
     /\ IsOk(Value_ToInt(trace[i].hist[3].val))}

\* The runes of a String, each as the bytes that encode it, or the elements
\* of a List.
Items(c) == IF c.k = "String" THEN Runes(c.b) ELSE c.e

\* C14: GET c start length on a String or a List c succeeds exactly when
\* start >= 0, length >= 0 and start + length is at most the length of c,
\* for all Integers start and length; on success it returns the length items
\* of c that begin at index start, and in every other case it returns an
\* error and does not panic.
C14_GetInRange ==
  /\ \A i \in Gotten :
       LET t == trace[i]
           c == t.hist[1].val
           start == Value_ToInt(t.hist[2].val).val.n
           amount == Value_ToInt(t.hist[3].val).val.n
       IN IF start >= 0 /\ amount >= 0 /\ start + amount <= Len(Items(c))
          THEN /\ t.err = NoErr
               /\ t.val.k = c.k
               /\ Items(t.val) = SubSeq(Items(c), start + 1, start + amount)
          ELSE t.err # NoErr /\ t.val = Nil
  /\ \A i \in Completed("G") :
       \* a negative start is refused before the length is executed
       (Len(trace[i].hist) = 2 /\ trace[i].hist[2].err = NoErr) => trace[i].err # NoErr
  /\ (ctl.mode = "panic" /\ stack # <<>>) => Top.f # "G"

\* The run is over, of a program of RoundTrips whose SET had a String s and a
\* String r, or a List s and a List r, and start, amount >= 0 with
\* start + amount at most the length of s.
RoundTripInRange ==
  /\ ctl.mode = "done"
  /\ \E k \in 1..Len(RoundTrips) : source = RoundTrips[k]
  /\ \E i \in 1..Len(trace) :
       LET t == trace[i]
       IN /\ t.f = "S" /\ Len(t.hist) = 4
          /\ t.hist[1].val.k \in {"String", "List"}
          /\ t.hist[4].val.k = t.hist[1].val.k
          /\ t.hist[2].val.n >= 0 /\ t.hist[3].val.n >= 0
          /\ t.hist[2].val.n + t.hist[3].val.n <= Len(Items(t.hist[1].val))

\* C15: for Strings s and r, or Lists s and r, and start, amount >= 0 with
\* start + amount at most LENGTH s, ? (GET (SET s start amount r) start
\* (LENGTH r)) r is true.
C15_SetThenGet ==
  RoundTripInRange => result = Ok(Boolean(TRUE)) /\ stdout = <<116, 114, 117, 101>>

\* The values without a Variable or an Ast in them.
RECURSIVE Plain(_)
Plain(v) ==
  /\ v.k \in {"Null", "Boolean", "Integer", "String", "List"}
  /\ v.k = "List" => \A j \in 1..Len(v.e) : Plain(v.e[j])

RECURSIVE StringOf(_)
RECURSIVE JoinedBy(_, _)
\* The strings of the elements es, with sep between them.
JoinedBy(es, sep) ==
  IF es = <<>> THEN <<>>
  ELSE IF Len(es) = 1 THEN StringOf(es[1])
  ELSE StringOf(es[1]) \o sep \o JoinedBy(Tail(es), sep)

\* The String coercion of a plain value: "null", "true" or "false", the
\* decimal representation, the string itself, or the elements' coercions
\* joined by a newline.
StringOf(v) ==
  CASE v.k = "Null" -> <<110, 117, 108, 108>>
    [] v.k = "Boolean" -> IF v.n = 1 THEN <<116, 114, 117, 101>> ELSE <<102, 97, 108, 115, 101>>
    [] v.k = "Integer" -> FormatInt(v.n)
    [] v.k = "String" -> v.b
    [] v.k = "List" -> JoinedBy(v.e, <<10>>)

\* What OUTPUT writes for the string m.
Written(m) ==
  IF m # <<>> /\ m[Len(m)] = 92 THEN SubSeq(m, 1, Len(m) - 1) ELSE m \o <<10>>

\* C16: the String coercion maps Null to "null", TRUE and FALSE to "true" and
\* "false", an Integer to its decimal representation, a String to itself and
\* a List to the coercions of its elements joined by a newline; OUTPUT, +
\* with a String on the left, SET on a String and ^ on a List use this
\* string.
C16_StringCoercion ==
  \A i \in 1..Len(trace) :
    LET t == trace[i]
        last == t.hist[Len(t.hist)]
    IN (t.hist # <<>> /\ last.err = NoErr /\ Plain(last.val)) =>
         /\ (t.f = "O") =>
               t.err = NoErr /\ t.post.stdout = t.pre.stdout \o Written(StringOf(last.val))
         /\ (t.f = "+" /\ Len(t.hist) = 2 /\ t.hist[1].val.k = "String") =>
               t.val = String(t.hist[1].val.b \o StringOf(last.val))
         /\ (t.f = "S" /\ Len(t.hist) = 4 /\ t.hist[1].val.k = "String") =>
               LET s == t.hist[1].val.b
                   start == t.hist[2].val.n
                   stop == start + t.hist[3].val.n
               IN t.val = String(SubSeq(s, 1, start) \o StringOf(last.val)
                                 \o SubSeq(s, stop + 1, Len(s)))
         /\ (t.f = "^" /\ Len(t.hist) = 2 /\ t.hist[1].val.k = "List" /\ Plain(t.hist[1].val)) =>
               t.val = String(JoinedBy(t.hist[1].val.e, StringOf(last.val)))

\* The number of whitespace bytes bs begins with.
LeadingSpace(bs) ==
  CHOOSE k \in 0..Len(bs) :
    /\ \A j \in 1..k : IsSpace(bs[j])
    /\ k < Len(bs) => ~IsSpace(bs[k + 1])

\* The length of the run of decimal digits of bs that begins after from.
DigitRun(bs, from) ==
  CHOOSE d \in 0..(Len(bs) - from) :
    /\ \A j \in 1..d : isDigit(bs[from + j])
    /\ from + d < Len(bs) => ~isDigit(bs[from + d + 1])

RECURSIVE DecimalOf(_)
\* The number that the decimal digits ds denote.
DecimalOf(ds) ==
  IF ds = <<>> THEN 0
  ELSE 10 * DecimalOf(SubSeq(ds, 1, Len(ds) - 1)) + (ds[Len(ds)] - 48)

\* The number at the start of bs: leading whitespace, an optional sign, the
\* maximal run of digits; 0 when the run is empty.
IntegerPrefix(bs) ==
  LET k == LeadingSpace(bs)
      signed == k < Len(bs) /\ bs[k + 1] \in {43, 45}
      from == IF signed THEN k + 1 ELSE k
      magnitude == DecimalOf(SubSeq(bs, from + 1, from + DigitRun(bs, from)))
  IN IF signed /\ bs[k + 1] = 45 THEN -magnitude ELSE magnitude

RECURSIVE DigitsSum(_)
\* The sum of d_i * 10^(k-1-i) over the k Integers ds.
DigitsSum(ds) ==
  IF ds = <<>> THEN 0
  ELSE 10 * DigitsSum(SubSeq(ds, 1, Len(ds) - 1)) + ds[Len(ds)].n

\* C18: the List coercion of an Integer n is its base-10 digits, the most
\* significant first, each with the sign of n, and [0] for 0: the list is not
\* empty, every element is an Integer of -9..9 that is 0 or has the sign of
\* n, the first is not 0 unless n is, and the digits sum up to n with their
\* powers of ten.
C18_IntegerToList ==
  \A i \in Completed("+") :
    LET t == trace[i]
        n == t.hist[2].val.n
        ds == t.val.e
    IN (Len(t.hist) = 2 /\ t.hist[1].val.k = "List" /\ t.hist[1].val.e = <<>>
        /\ t.hist[2].err = NoErr /\ t.hist[2].val.k = "Integer") =>
         /\ t.err = NoErr /\ t.val.k = "List"
         /\ ds # <<>>
         /\ \A j \in 1..Len(ds) :
              /\ ds[j].k = "Integer"
              /\ ds[j].n \in -9..9
              /\ ds[j].n * n >= 0
              /\ ds[j].n # 0 => (ds[j].n < 0) = (n < 0)
         /\ n # 0 => ds[1].n # 0
         /\ n = 0 => ds = <<Integer(0)>>
         /\ DigitsSum(ds) = n

\* ~123 has been coerced to the List of -1, -2 and -3, and written.
C18_Witness ==
  /\ ctl.mode = "done"
  /\ source = call1("D", call2("+", word("@"), call1("~", lit(123))))
  /\ result = Ok(List(<<Integer(-1), Integer(-2), Integer(-3)>>))
  /\ stdout = <<91, 45, 49, 44, 32, 45, 50, 44, 32, 45, 51, 93>>

RECURSIVE HoldsBlock(_)
\* v is a Variable or an Ast, or a List with such an element.
HoldsBlock(v) ==
  \/ v.k \in {"Variable", "Ast"}
  \/ v.k = "List" /\ \E j \in 1..Len(v.e) : HoldsBlock(v.e[j])

\* The function f coerces the value that its argument idx executes to.
Coerces(f, idx) ==
  \/ idx = 0 /\ f \in {"!", "~", "L", "O", "&", "|", "W", "I"}
  \/ idx = 1 /\ f \in {"+", "-", "*", "/", "%", "^", "<", ">", "G", "S"}
  \/ idx = 2 /\ f \in {"G", "S"}
  \/ idx = 3 /\ f = "S"

\* The function f joins into a String the List that its argument idx
\* executes to, after the arguments before it executed to the values of hist.
Joins(f, idx, hist) ==
  \/ idx = 0 /\ f = "O"
  \/ idx = 1 /\ f = "+" /\ hist[1].val.k = "String"
  \/ idx = 0 /\ f = "^" /\ Len(hist) = 2 /\ hist[2].err = NoErr
       /\ IsOk(Value_ToString(hist[2].val))
  \/ idx = 3 /\ f = "S" /\ hist[1].val.k = "String"

\* C19: a Variable and a Call, as BLOCK returns them, have no coercions: a
\* function that coerces one to a Boolean, an Integer, a String or a List, or
\* that joins a List with one as an element into a String, returns an error
\* and no value, and executes nothing: the state stays as it was when the
\* argument returned, and the Variable or Call is not executed.
C19_NoCoercionOfBlocks ==
  /\ \A i \in 1..Len(trace) :
       LET t == trace[i]
       IN \A j \in 1..Len(t.hist) :
            LET c == t.hist[j]
            IN (/\ c.err = NoErr
                /\ \/ Coerces(t.f, c.idx) /\ c.val.k \in {"Variable", "Ast"}
                   \/ Joins(t.f, c.idx, t.hist) /\ c.val.k = "List" /\ HoldsBlock(c.val)) =>
                 /\ t.err # NoErr /\ t.val = Nil
                 /\ t.post = t.hist[Len(t.hist)].post
                 /\ c.idx # 0 => j = Len(t.hist)
  /\ (\E k \in 1..Len(Coercions) : source = Coercions[k]) =>
       /\ stdout = <<>>
       /\ Completed("D") = {}
       /\ ctl.mode = "done" => result.err # NoErr

\* The run of ; = x 1 OUTPUT , BLOCK DUMP x is over: joining the List failed
\* on the Call, which was not executed.
C19_Witness ==
  /\ ctl.mode = "done"
  /\ source = Sequence(<<call2("=", ref(n_x), lit(1)),
                         call1("O", call1(",", call1("B", call1("D", ref(n_x)))))>>)
  /\ result.err.msg = "Ast doesn't define string conversions"
  /\ stdout = <<>>
  /\ \E i \in Completed("O") : trace[i].err # NoErr /\ HoldsBlock(trace[i].hist[1].val)
  /\ \E i \in Completed("B") : trace[i].val.k = "Ast"

\* C20: for a String s that is not empty, [ s is the String of the first rune
\* of s and ] s is s without its first rune, so that + ([ s) (] s) equals s
\* and LENGTH ] s = LENGTH s - 1; the same holds by element for a List that
\* is not empty; on an empty String or List both [ and ] return an error.
C20_HeadAndTail ==
  /\ \A i \in Completed("[") \cup Completed("]") :
       LET t == trace[i]
           s == t.hist[1].val
       IN (t.hist[1].err = NoErr /\ s.k \in {"String", "List"}) =>
            IF Items(s) = <<>> THEN t.err # NoErr /\ t.val = Nil
            ELSE /\ t.err = NoErr
                 /\ (t.f = "[" /\ s.k = "String") => t.val = String(SubSeq(s.b, 1, RuneWidth(s.b)))
                 /\ (t.f = "]" /\ s.k = "String") =>
                       t.val = String(SubSeq(s.b, RuneWidth(s.b) + 1, Len(s.b)))
                 /\ (t.f = "[" /\ s.k = "List") => t.val = s.e[1]
                 /\ (t.f = "]" /\ s.k = "List") => t.val.k = "List" /\ t.val.e = Tail(s.e)
  /\ (ctl.mode = "done" /\ \E k \in 1..Len(HeadsAndTails) : source = HeadsAndTails[k]) =>
       \* the activations whose two arguments returned without an error
       /\ \A i \in Completed("?") \cup Completed("-") :
            (Len(trace[i].hist) = 2 /\ trace[i].hist[2].err = NoErr) =>
              trace[i].val = IF trace[i].f = "?" THEN Boolean(TRUE) ELSE Integer(1)

\* The int n is a Unicode scalar value: 0 <= n <= 0x10FFFF, surrogates excepted.
IsScalarValue(n) ==
  /\ n.hi = 0
  /\ 0 <= n.lo /\ n.lo <= 1114111
  /\ ~(55296 <= n.lo /\ n.lo <= 57343)

\* C21: ASCII n for an Integer n returns a String of one rune iff n is a
\* Unicode scalar value and an error for every other n; when it returns a
\* String, ASCII of that String returns n.
C21_Ascii ==
  /\ asciiCall.calls >= 1 =>
       IF IsScalarValue(asciiCall.n)
       THEN /\ asciiCall.first.err = ""
            /\ asciiCall.first.val.k = "String"
            /\ asciiCall.first.val.b # <<>>
            /\ RuneWidth(asciiCall.first.val.b) = Len(asciiCall.first.val.b)
       ELSE asciiCall.first.err # "" /\ asciiCall.first.val = NoValue
  /\ asciiCall.calls = 2 =>
       asciiCall.second.err = "" /\ asciiCall.second.val = asciiCall.n

\* The values the parser holds: the one being returned and the arguments
\* already assigned in the loops.
ParsedValues ==
  {parsing.val} \cup
  UNION {{parsing.frames[k].arguments[j] : j \in 1..parsing.frames[k].i} :
         k \in 1..Len(parsing.frames)}

\* Every Ast node in v has one argument per argument of its function, none nil.
RECURSIVE FullNodes(_)
FullNodes(v) ==
  v.k = "Ast" =>
    /\ Len(v.e) = KnownFunctions(v.f).arity
    /\ \A j \in 1..Len(v.e) : v.e[j] # Nil /\ FullNodes(v.e[j])

\* C22: every Ast node the parser builds, from any source, has as many
\* arguments as the arity of its function, each a parsed value, and NewAst
\* never panics.
C22_CallNodes ==
  /\ \A v \in ParsedValues : FullNodes(v)
  /\ ~(parsing.mode = "panic" /\ ~parsing.p.panicked)

\* : : T has been parsed: three nodes, one in the other.
C22_Witness ==
  /\ parsing.mode = "done"
  /\ parsing.val = Ast(":", <<Ast(":", <<Ast("T", <<>>)>>)>>)

\* From index i on, the text holds only whitespace, parentheses and comments.
RECURSIVE BlankFrom(_, _, _)
BlankFrom(runes, i, inComment) ==
  IF i > Len(runes) THEN TRUE
  ELSE IF inComment THEN BlankFrom(runes, i + 1, runes[i] # 10)
  ELSE IF runes[i] = 35 THEN BlankFrom(runes, i + 1, TRUE)
  ELSE (IsSpace(runes[i]) \/ runes[i] = 40 \/ runes[i] = 41) /\ BlankFrom(runes, i + 1, FALSE)

\* The arguments of the frame that have been parsed.
Filled(frame) == Cardinality({j \in DOMAIN frame.arguments : frame.arguments[j] # Nil})

\* The number of newlines among the first index runes of the source.
Newlines(index) == Len(SelectSeq(SubSeq(parsing.p.source, 1, index), LAMBDA r : r = 10))

IsMissingArgument(err) == err.msg = "[line %d] missing argument %d for function %q"

\* C23: when the source ends before an argument of a function, the innermost
\* call whose argument is missing returns a missing-argument error with the
\* line, the number of the first missing argument and the name of the
\* function, its callers return that error as it is, and EndOfInput itself is
\* returned only for a source of whitespace and comments.
C23_MissingArgument ==
  /\ [][parsing.mode = "ret" /\ parsing.err = EndOfInput /\ parsing.frames # <<>> =>
          LET frame == parsing.frames[Len(parsing.frames)]
          IN /\ parsing'.mode = "ret"
             /\ IsMissingArgument(parsing'.err)
             /\ parsing'.err.line = Newlines(frame.startIndex)
             /\ parsing'.err.n = Filled(frame) + 1
             /\ parsing'.err.b = KnownFunctions(frame.function).name]_vars
  /\ [][parsing.mode = "ret" /\ IsMissingArgument(parsing.err) =>
          parsing'.err = parsing.err /\ parsing'.mode \in {"ret", "done"}]_vars
  /\ [](parsing.mode = "done" =>
          (parsing.err = EndOfInput <=> BlankFrom(parsing.p.source, 1, FALSE)))

\* A newline, then + whose first argument is D without its argument: the
\* error is the one of D, on line 1.
C23_Witness ==
  /\ parsing.mode = "done"
  /\ parsing.p.source = <<10, 43, 68>>
  /\ parsing.err = ErrLine("[line %d] missing argument %d for function %q", 1, <<68, 85, 77, 80>>, 1)

\* C24: the parser treats ( ) and : as whitespace: before a token each is
\* consumed and the parse goes on, no Ast node being made for it.
C24_SkipSet ==
  [][parsing.mode = "parse" /\ ~IsAtEnd(parsing.p) /\ Peek(parsing.p) \in {40, 41, 58} =>
       /\ parsing'.mode = "parse"
       /\ parsing'.frames = parsing.frames
       /\ parsing'.p.index = parsing.p.index + 1]_vars

\* What is left of a parse: the runes not yet consumed count most, then the
\* iterations left in the loops of the calls in progress, then the returns
\* still to be made.
Remaining ==
  LET left(k) == KnownFunctions(parsing.frames[k].function).arity - parsing.frames[k].i
      RECURSIVE Iterations(_)
      Iterations(k) == IF k = 0 THEN 0 ELSE left(k) + Iterations(k - 1)
  IN 8 * (Len(parsing.p.source) - parsing.p.index)
     + 2 * Iterations(Len(parsing.frames))
     + (CASE parsing.mode = "parse" -> 2 [] parsing.mode = "ret" -> 1 [] OTHER -> 0)

\* C30: the cursor stays within the source and never goes back, a call of
\* ParseNextValue consumes a rune or returns EndOfInput, Peek and Advance
\* never panic, and the parse ends: every step brings it nearer to its end,
\* where the outermost call has returned.
C30_Cursor ==
  /\ [](/\ 0 <= parsing.p.index /\ parsing.p.index <= Len(parsing.p.source)
        /\ ~parsing.p.panicked
        /\ parsing.mode \in {"parse", "ret", "done"}
        /\ Remaining >= 0)
  /\ [][parsing'.p.index >= parsing.p.index]_vars
  /\ [][parsing.mode = "parse" =>
          \/ parsing'.p.index > parsing.p.index
          \/ parsing'.mode = "ret" /\ parsing'.err = EndOfInput]_vars
  /\ [][Remaining' < Remaining]_vars

\* A string that ends with the source has been parsed.
C30_Witness ==
  /\ parsing.mode = "done"
  /\ parsing.p.source = <<39, 120, 39>>
  /\ parsing.val = String(<<120>>)
  /\ parsing.p.index = 3

\* xs is count times the sequence once.
IsRepeated(xs, once, count) ==
  /\ Len(xs) = Len(once) * count
  /\ \A k \in 1..Len(xs) : xs[k] = once[((k - 1) % Len(once)) + 1]

\* C29: * a b executes a, then b, once, and coerces b's value to an Integer,
\* whatever the kind of a's value; an error of b or of its coercion is the
\* one returned, also when * does not accept a's kind.  Only then comes the
\* product (Integer a), the repetition (String or List a, an error when b is
\* negative) or the invalid-type error (any other a).
C29_Multiply ==
  \A i \in Completed("*") :
    LET t == trace[i]
        a == t.hist[1].val
    IN t.hist[1].err = NoErr =>
         /\ Len(t.hist) = 2
         /\ t.hist[1].idx = 0 /\ t.hist[2].idx = 1
         /\ t.hist[2].pre = t.hist[1].post
         /\ t.post = t.hist[2].post
         /\ LET b == Value_ToInt(t.hist[2].val)
            IN IF t.hist[2].err # NoErr THEN t.val = Nil /\ t.err = t.hist[2].err
               ELSE IF ~IsOk(b) THEN t.val = Nil /\ t.err = b.err
               ELSE CASE a.k = "Integer" ->
                           t.err = NoErr /\ t.val = Integer(Wrap(a.n * b.val.n))
                      [] a.k \in {"String", "List"} /\ b.val.n < 0 ->
                           /\ t.val = Nil
                           /\ t.err.msg \in
                                {"negative replication amount for a string in '*': %d",
                                 "negative replication amount for a list in '*': %d"}
                           /\ t.err.n = b.val.n
                      [] a.k = "String" /\ b.val.n >= 0 ->
                           /\ t.err = NoErr /\ t.val.k = "String"
                           /\ IsRepeated(t.val.b, a.b, b.val.n)
                      [] a.k = "List" /\ b.val.n >= 0 ->
                           /\ t.err = NoErr /\ t.val.k = "List"
                           /\ IsRepeated(t.val.e, a.e, b.val.n)
                      [] OTHER ->
                           /\ t.val = Nil
                           /\ t.err = ErrT("invalid type given to '*': %T", TypeName(a))

\* ; = x 1 * TRUE ; DUMP 2 BLOCK x has written 2 once and returned the error
\* of the coercion of the block (the variable x, not executed).
C29_Witness ==
  /\ ctl.mode = "done"
  /\ source = Multiplications[24]
  /\ stdout = <<50>>
  /\ result.err.msg = "Variable doesn't define integer conversions"
  /\ \E i \in Completed("*") :
       /\ trace[i].hist[1].val = Boolean(TRUE)
       /\ Len(trace[i].hist) = 2
       /\ trace[i].hist[2].val.k = "Variable"
       /\ trace[i].err = Err("Variable doesn't define integer conversions")

\* The activations that returned during the activation trace[i], itself included.
During(i) == (trace[i].since + 1)..i

\* C27: executing an expression during which no = is executed leaves every
\* variable as it was, unset or with its value, and = v e changes no
\* variable but v, apart from what executing e changes.
C27_OnlyAssignChangesVariables ==
  \A i \in 1..Len(trace) :
    LET t == trace[i]
    IN /\ (\A j \in During(i) : trace[j].f # "=") => t.post.cells = t.pre.cells
       /\ t.f = "=" =>
            IF t.hist = <<>> THEN t.post.cells = t.pre.cells
            ELSE /\ Len(t.hist) = 1
                 /\ t.hist[1].pre.cells = t.pre.cells
                 /\ Len(t.post.cells) = Len(t.pre.cells)
                 /\ \A c \in 1..Len(t.post.cells) :
                      c # t.e[1].n => t.post.cells[c] = t.hist[1].post.cells[c]

\* ; = x = y 3 DUMP + x y has run: the inner = has set y and left x unset,
\* the outer one has set x and left y, and + and DUMP have changed neither.
C27_Witness ==
  /\ ctl.mode = "done"
  /\ source = Variables[7]
  /\ stdout = <<54>>
  /\ \E i, j \in Completed("=") :
       /\ i < j /\ i \in During(j)
       /\ trace[i].post.cells[2].value = Integer(3) /\ trace[i].post.cells[1].value = Nil
       /\ trace[j].post.cells[2].value = Integer(3) /\ trace[j].post.cells[1].value = Integer(3)
  /\ \E i \in Completed("D") : trace[i].post.cells = trace[i].pre.cells /\ During(i) = {i - 1, i}

\* A call of one of the functions fs has been made.
Executed(fs) ==
  \/ \E i \in 1..Len(trace) : trace[i].f \in fs
  \/ \E k \in 1..Len(stack) : stack[k].f \in fs

\* The Ast nodes of the program: one for each function of the source.
Nodes == Cardinality({i \in 1..Len(source) : source[i].t = "fn"})

EarlierAssignments ==
  {k \in 1..Len(playing.log) :
     /\ playing.log[k].api = "PlayWithEnvironment"
     /\ playing.log[k].source \in {PlayPrograms[1], PlayPrograms[3]}}

\* C26: a call of Play finds every variable unset, whatever the calls before
\* it assigned, and a call of PlayWithEnvironment finds the variables as the
\* calls of PlayWithEnvironment before it left them: x, when read, is
\* undefined in the first case and has the value last assigned in the second.
C26_PlayEnvironments ==
  (ctl.mode = "done" /\ playing.calls > 0 /\ source = PlayPrograms[2]) =>
     IF playing.api = "Play" \/ EarlierAssignments = {}
     THEN /\ result.val = Nil
          /\ result.err = ErrWrap("runtime error: %v",
                                  ErrB("undefined variable %q encountered", n_x))
     ELSE LET last == CHOOSE k \in EarlierAssignments : \A j \in EarlierAssignments : j <= k
          IN result = Ok(Integer(IF playing.log[last].source = PlayPrograms[1] THEN 1 ELSE 2))

\* PlayWithEnvironment("= x 1", env), Play("x"), PlayWithEnvironment("x", env):
\* the second call did not find x, the third one has.
C26_Witness ==
  /\ ctl.mode = "done"
  /\ playing.calls = 3
  /\ playing.log[1].api = "PlayWithEnvironment" /\ playing.log[1].source = PlayPrograms[1]
  /\ playing.log[2].api = "Play" /\ playing.log[2].source = PlayPrograms[2]
  /\ playing.log[2].result.err # NoErr
  /\ playing.api = "PlayWithEnvironment" /\ source = PlayPrograms[2]
  /\ result = Ok(Integer(1))

\* C28: no operation changes a List obtained before: after + , * , GET, SET
\* or ] every earlier List has the length and the elements it had, also when
\* it shares its array with the operands or the result.
C28_ListsAreImmutable ==
  [][\A k \in 1..Len(slices.lists) :
       /\ slices'.lists[k].len = slices.lists[k].len
       /\ SliceContents(slices'.arrays, slices'.lists[k])
            = SliceContents(slices.arrays, slices.lists[k])]_vars

\* From 1 2 3: GET 0 1 has given a List in the array of the first, with room
\* after it, and + of that List and itself has given 1 1 in another array.
C28_Witness ==
  /\ slices.ops = 2
  /\ Len(slices.lists) = 3
  /\ slices.lists[2] = [array |-> 1, off |-> 0, len |-> 1, cap |-> 3]
  /\ slices.lists[3].array = 2
  /\ SliceContents(slices.arrays, slices.lists[3]) = <<1, 1>>
  /\ SliceContents(slices.arrays, slices.lists[1]) = <<1, 2, 3>>

====
